---------------------------- MODULE Spec2Model ----------------------------
(***************************************************************************)
(* A model of nova-pydrobox: the credential codec and the dual-backend     *)
(* token storage (auth/token_storage.py), the chunked upload and download  *)
(* of operations/files.py, the batch (directory) upload of                 *)
(* operations/files.py and of the legacy dropbox_operations.py,            *)
(* authenticate_dropbox under its rate_limit decorator and                 *)
(* get_dropbox_client (auth/authenticator.py), get_tokens called from      *)
(* several threads, and the paginated list_files (operations/base.py)      *)
(* with its callers get_folder_size, get_folder_structure and the folder   *)
(* branch of download.                                                     *)
(*                                                                         *)
(* Strings are sequences of Unicode code points, byte strings sequences of *)
(* 0..255.  An optional value is a sequence of length 0 (None) or 1.       *)
(* Byte counts of transfers are the real numbers of the source.            *)
(***************************************************************************)
EXTENDS Integers, Sequences, FiniteSets, TLC

VARIABLES
    \* --- credential codec driver
    cx, cstage, cenc, cdec,
    \* --- token storage
    st_pc, platform, force_fernet, use_keyring, probe_writes, probe_out,
    keyring, key_file, token_file, key_mode, token_mode, nops, hist,
    \* --- upload of one file
    up_pc, file_size, f_tell, cursor_offset, up_pbar, start_len,
    n_upload, n_session_start, n_session_append, n_session_finish,
    overwrite, commit, up_failures, up_calls, f_len,
    \* --- download of one file
    dl_pc, meta_size, dl_written, dl_pbar, dl_cursor, dl_resps,
    n_get_metadata, n_download, n_dl_session_start, n_dl_session_append,
    dl_failures, dl_local,
    \* --- upload of a directory
    b_pc, b_pooled, max_workers, b_nfiles, b_submitted, b_task, b_results,
    b_collected, b_overwrite, b_modes,
    \* --- authenticate_dropbox
    a_pc, force_reauth, a_stored, a_gets, a_creds, a_exchanges, a_exchanged,
    a_save_results, a_ret, a_outs, a_now, rl_attempts, a_hist,
    \* --- get_dropbox_client
    c_pc, c_creds, c_outs, c_ret,
    \* --- get_tokens called from several threads
    cg_pc, cg_n, cg_tokens, cg_key, cg_ret, cg_init,
    \* --- list_files and its callers
    ls_pc, ls_caller, ls_tree, ls_page_size, ls_flag, ls_has_more, ls_cursor,
    all_entries, ls_calls, ls_results, fd_seen, fd_written, fd_results, fs_ret

codec_vars == <<cx, cstage, cenc, cdec>>
store_vars == <<st_pc, platform, force_fernet, use_keyring, probe_writes,
                probe_out, keyring, key_file, token_file, key_mode,
                token_mode, nops, hist>>
upload_vars == <<up_pc, file_size, f_tell, cursor_offset, up_pbar, start_len,
                 n_upload, n_session_start, n_session_append, n_session_finish,
                 overwrite, commit, up_failures, up_calls, f_len>>
download_vars == <<dl_pc, meta_size, dl_written, dl_pbar, dl_cursor, dl_resps,
                   n_get_metadata, n_download, n_dl_session_start,
                   n_dl_session_append, dl_failures, dl_local>>
batch_vars == <<b_pc, b_pooled, max_workers, b_nfiles, b_submitted, b_task,
                b_results, b_collected, b_overwrite, b_modes>>
call_vars == <<a_gets, a_creds, a_exchanges, a_exchanged, a_save_results,
               a_outs>>
client_vars == <<c_pc, c_creds, c_outs, c_ret>>
auth_vars == <<a_pc, force_reauth, a_stored, a_ret, a_now, rl_attempts,
               a_hist, call_vars, client_vars>>
conc_vars == <<cg_pc, cg_n, cg_tokens, cg_key, cg_ret, cg_init>>
ls_input == <<ls_caller, ls_tree, ls_page_size, ls_flag>>
ls_loop == <<ls_has_more, ls_cursor, all_entries, ls_calls, ls_results>>
fd_vars == <<fd_seen, fd_written, fd_results>>
list_vars == <<ls_pc, ls_input, ls_loop, fd_vars, fs_ret>>
vars == <<codec_vars, store_vars, upload_vars, download_vars, batch_vars,
          auth_vars, conc_vars, list_vars>>

\* A step of one component leaves the others as they are.
OnlyCodec ==
    UNCHANGED <<conc_vars, list_vars, store_vars, upload_vars, download_vars, batch_vars, auth_vars>>
OnlyStore ==
    UNCHANGED <<conc_vars, list_vars, codec_vars, upload_vars, download_vars, batch_vars, auth_vars>>
OnlyUpload ==
    UNCHANGED <<conc_vars, list_vars, codec_vars, store_vars, download_vars, batch_vars, auth_vars>>
OnlyDownload ==
    UNCHANGED <<conc_vars, list_vars, codec_vars, store_vars, upload_vars, batch_vars, auth_vars>>
OnlyAuth ==
    UNCHANGED <<conc_vars, codec_vars, store_vars, upload_vars, download_vars,
                batch_vars, list_vars>>
OnlyList ==
    UNCHANGED <<conc_vars, codec_vars, store_vars, upload_vars, download_vars,
                batch_vars, auth_vars>>
\* A step of a get_tokens thread reads the storage and may create the key
\* file.
OnlyConc ==
    UNCHANGED <<codec_vars, upload_vars, download_vars, batch_vars, auth_vars,
                list_vars,
                st_pc, platform, force_fernet, use_keyring, probe_writes,
                probe_out, key_mode, token_mode, nops, hist>>
OnlyBatch ==
    UNCHANGED <<conc_vars, list_vars, codec_vars, store_vars, upload_vars, download_vars, auth_vars>>

None == <<>>
Some(v) == <<v>>

Ok(v) == [ok |-> TRUE, v |-> v]
Raise == [ok |-> FALSE, v |-> <<>>]

(***************************************************************************)
(* Bounds of the model.                                                    *)
(***************************************************************************)
MaxStrLen == 3
\* The number of save, get and clear calls made on a store.
MaxOps == 3
\* File sizes reach the threshold plus this many half chunks (plus one byte).
MaxExtraHalfChunks == 4
\* The number of download-session calls a remote answers.
MaxSessionCalls == 4
\* The number of files in an uploaded directory.
MaxFiles == 5
\* The number of authorization codes the user enters.
MaxAuthCodes == 3
MaxCalls == 4
\* Append calls of one upload session: more than a file of the sizes
\* transferred needs.
MaxAppendCalls == 50
\* The number of threads that call get_tokens at the same time.
MaxGetters == 2

(***************************************************************************)
(* CredentialCodec: str.encode() / bytes.decode() (UTF-8, strict) and      *)
(* base64.b64encode / base64.b64decode as _encode_value and _decode_value  *)
(* call them.                                                              *)
(***************************************************************************)

\* str.encode() of one code point: the surrogates U+D800..U+DFFF cannot be
\* encoded and raise UnicodeEncodeError.
Utf8EncodeChar(cp) ==
    IF cp < 128 THEN Ok(<<cp>>)
    ELSE IF cp < 2048 THEN Ok(<<192 + (cp \div 64), 128 + (cp % 64)>>)
    ELSE IF cp >= 55296 /\ cp <= 57343 THEN Raise
    ELSE IF cp < 65536 THEN
        Ok(<<224 + (cp \div 4096), 128 + ((cp \div 64) % 64), 128 + (cp % 64)>>)
    ELSE Ok(<<240 + (cp \div 262144), 128 + ((cp \div 4096) % 64),
              128 + ((cp \div 64) % 64), 128 + (cp % 64)>>)

RECURSIVE Utf8Encode(_)
Utf8Encode(s) ==
    IF s = <<>> THEN Ok(<<>>)
    ELSE LET h == Utf8EncodeChar(Head(s))
             t == Utf8Encode(Tail(s))
         IN IF h.ok /\ t.ok THEN Ok(h.v \o t.v) ELSE Raise

IsCont(b) == b >= 128 /\ b <= 191

\* bytes.decode() (UTF-8, strict): UnicodeDecodeError on an invalid start
\* byte, a truncated or overlong sequence, or an encoded surrogate.
RECURSIVE Utf8Decode(_)
Utf8Decode(b) ==
    IF b = <<>> THEN Ok(<<>>)
    ELSE LET b1 == b[1]
             n  == Len(b)
             Rest(k, cp) == LET t == Utf8Decode(SubSeq(b, k + 1, n))
                            IN IF t.ok THEN Ok(<<cp>> \o t.v) ELSE Raise
         IN IF b1 < 128 THEN Rest(1, b1)
            ELSE IF b1 >= 194 /\ b1 <= 223 THEN
                IF n >= 2 /\ IsCont(b[2])
                THEN Rest(2, (b1 - 192) * 64 + (b[2] - 128))
                ELSE Raise
            ELSE IF b1 >= 224 /\ b1 <= 239 THEN
                IF /\ n >= 3 /\ IsCont(b[2]) /\ IsCont(b[3])
                   /\ (b1 = 224 => b[2] >= 160)
                   /\ (b1 = 237 => b[2] <= 159)
                THEN Rest(3, (b1 - 224) * 4096 + (b[2] - 128) * 64 + (b[3] - 128))
                ELSE Raise
            ELSE IF b1 >= 240 /\ b1 <= 244 THEN
                IF /\ n >= 4 /\ IsCont(b[2]) /\ IsCont(b[3]) /\ IsCont(b[4])
                   /\ (b1 = 240 => b[2] >= 144)
                   /\ (b1 = 244 => b[2] <= 143)
                THEN Rest(4, (b1 - 240) * 262144 + (b[2] - 128) * 4096
                             + (b[3] - 128) * 64 + (b[4] - 128))
                ELSE Raise
            ELSE Raise

B64Pad == 61

\* The base64 alphabet: sextet -> ASCII code.
B64Char(s) ==
    IF s < 26 THEN 65 + s
    ELSE IF s < 52 THEN 97 + (s - 26)
    ELSE IF s < 62 THEN 48 + (s - 52)
    ELSE IF s = 62 THEN 43
    ELSE 47

\* ASCII code -> sextet, 64 for a byte outside the alphabet.
B64Val(c) ==
    IF c >= 65 /\ c <= 90 THEN c - 65
    ELSE IF c >= 97 /\ c <= 122 THEN c - 97 + 26
    ELSE IF c >= 48 /\ c <= 57 THEN c - 48 + 52
    ELSE IF c = 43 THEN 62
    ELSE IF c = 47 THEN 63
    ELSE 64

\* A variant that leaves the '=' padding out.
RECURSIVE B64EncodeNoPad(_)
B64EncodeNoPad(b) ==
    LET n == Len(b) IN
    IF n = 0 THEN <<>>
    ELSE IF n = 1 THEN
        <<B64Char(b[1] \div 4), B64Char((b[1] % 4) * 16)>>
    ELSE IF n = 2 THEN
        <<B64Char(b[1] \div 4), B64Char((b[1] % 4) * 16 + (b[2] \div 16)),
          B64Char((b[2] % 16) * 4)>>
    ELSE
        <<B64Char(b[1] \div 4), B64Char((b[1] % 4) * 16 + (b[2] \div 16)),
          B64Char((b[2] % 16) * 4 + (b[3] \div 64)), B64Char(b[3] % 64)>>
        \o B64EncodeNoPad(SubSeq(b, 4, n))

\* base64.b64encode: 3 bytes -> 4 characters, the last group padded with '='.
RECURSIVE B64Encode(_)
B64Encode(b) ==
    LET n == Len(b) IN
    IF n = 0 THEN <<>>
    ELSE IF n = 1 THEN
        <<B64Char(b[1] \div 4), B64Char((b[1] % 4) * 16), B64Pad, B64Pad>>
    ELSE IF n = 2 THEN
        <<B64Char(b[1] \div 4), B64Char((b[1] % 4) * 16 + (b[2] \div 16)),
          B64Char((b[2] % 16) * 4), B64Pad>>
    ELSE
        <<B64Char(b[1] \div 4), B64Char((b[1] % 4) * 16 + (b[2] \div 16)),
          B64Char((b[2] % 16) * 4 + (b[3] \div 64)), B64Char(b[3] % 64)>>
        \o B64Encode(SubSeq(b, 4, n))

\* base64.b64decode(s) with validate=False, i.e. binascii.a2b_base64: bytes
\* outside the alphabet are skipped, a pad that completes the quad ends the
\* input, and data left in an unfinished quad raises binascii.Error.
RECURSIVE A2bBase64(_, _, _, _, _, _)
A2bBase64(a, i, quad_pos, pads, leftchar, out) ==
    IF i > Len(a) THEN (IF quad_pos # 0 THEN Raise ELSE Ok(out))
    ELSE IF a[i] = B64Pad THEN
        IF quad_pos >= 2 /\ quad_pos + pads + 1 >= 4 THEN Ok(out)
        ELSE A2bBase64(a, i + 1, quad_pos,
                       IF quad_pos >= 2 THEN pads + 1 ELSE pads, leftchar, out)
    ELSE LET c == B64Val(a[i]) IN
        IF c >= 64 THEN A2bBase64(a, i + 1, quad_pos, pads, leftchar, out)
        ELSE IF quad_pos = 0 THEN A2bBase64(a, i + 1, 1, 0, c, out)
        ELSE IF quad_pos = 1 THEN
            A2bBase64(a, i + 1, 2, 0, c % 16,
                      Append(out, leftchar * 4 + (c \div 16)))
        ELSE IF quad_pos = 2 THEN
            A2bBase64(a, i + 1, 3, 0, c % 4,
                      Append(out, leftchar * 16 + (c \div 4)))
        ELSE A2bBase64(a, i + 1, 0, 0, 0, Append(out, leftchar * 64 + c))

B64Decode(a) == A2bBase64(a, 1, 0, 0, 0, <<>>)

\* _encode_value: base64.b64encode(value.encode()).decode(); the original
\* value on any exception.  The base64 output is ASCII, so its .decode()
\* yields the same codes as code points.
_encode_value(value) ==
    LET b == Utf8Encode(value)
    IN IF b.ok THEN B64Encode(b.v) ELSE value

\* _decode_value: base64.b64decode(value.encode()).decode(); the original
\* value on any exception.
_decode_value(value) ==
    LET b == Utf8Encode(value) IN
    IF ~b.ok THEN value
    ELSE LET d == B64Decode(b.v) IN
         IF ~d.ok THEN value
         ELSE LET s == Utf8Decode(d.v) IN
              IF s.ok THEN s.v ELSE value

(***************************************************************************)
(* The code points strings are drawn from: a control character (LF), 'A',  *)
(* U+00E9, U+20AC, U+1F600 (1 to 4 bytes of UTF-8) and the lone surrogate  *)
(* U+D800, which str.encode() rejects.                                     *)
(***************************************************************************)
CodePoints == {10, 65, 233, 8364, 128512, 55296}

RECURSIVE StringsUpTo(_)
StringsUpTo(n) ==
    IF n = 0 THEN {<<>>}
    ELSE LET S == StringsUpTo(n - 1)
         IN S \cup {Append(s, c) : s \in {t \in S : Len(t) = n - 1}, c \in CodePoints}

Strings == StringsUpTo(MaxStrLen)

InitCodec ==
    /\ cx \in Strings
    /\ cstage = "input"
    /\ cenc = <<>>
    /\ cdec = <<>>

CodecEncode ==
    /\ cstage = "input"
    /\ OnlyCodec
    /\ cenc' = _encode_value(cx)
    /\ cstage' = "encoded"
    /\ UNCHANGED <<cx, cdec>>

CodecDecode ==
    /\ cstage = "encoded"
    /\ OnlyCodec
    /\ cdec' = _decode_value(cenc)
    /\ cstage' = "decoded"
    /\ UNCHANGED <<cx, cenc>>

(***************************************************************************)
(* TokenStorage.  The host keyring is a map from key names to optional     *)
(* strings; the configuration directory holds the key file (.key) and the  *)
(* ciphertext file (.tokens.encrypted).  A Fernet token is modelled by the *)
(* key it was made with and the plaintext it carries: decrypt raises       *)
(* InvalidToken unless the keys agree.                                     *)
(***************************************************************************)
Fields == {"app_key", "app_secret", "access_token", "refresh_token"}
FieldOrder == <<"app_key", "app_secret", "access_token", "refresh_token">>
KrKeys == Fields \cup {"test"}

StrA == <<65>>
StrEuro == <<8364>>
StrTest == <<116, 101, 115, 116>>
Values == {StrA, StrEuro}

Prefix(n) == {FieldOrder[i] : i \in 1..n}

\* A dict with the four keys, the access token being the empty string.
EmptyAccessToken ==
    [f \in Fields |-> IF f = "access_token" THEN <<>> ELSE StrA]

\* The dicts save_tokens is called with: the four-field sets with one value
\* in every field and a dict that lacks two of the fields.
TokenInputs ==
    {[f \in Fields |-> v] : v \in Values}
    \cup {[f \in Prefix(2) |-> StrA]}

Platforms == {"Windows", "Linux"}
ForceFernetArgs == {"None", "True", "False"}

\* The record of the last call.  A save records its argument, what it
\* returned (ok), whether a keyring write failed and the number of
\* _fernet_save_tokens calls it made.  A get records what it returned (got),
\* whether the keyring or the file system raised while reading (fault) and
\* the call it followed (pre).  A clear records what it returned (ok),
\* whether a delete raised (fault) and whether the selected backend held
\* nothing when it began (empty_before).  A save and a get record whether
\* _get_or_create_encryption_key raised in them (key_fault) and whether the
\* call ended with an exception instead of a return value (raised).
NoHist == [op |-> "none", tokens |-> None, ok |-> FALSE, got |-> None,
           write_failed |-> FALSE, fsaves |-> 0, fault |-> FALSE,
           empty_before |-> FALSE, pre |-> "none",
           key_fault |-> FALSE, raised |-> FALSE]

StoreEmpty ==
    IF use_keyring THEN \A f \in Fields : keyring[f] = None
    ELSE token_file = None

SaveRecord(tokens, ok, failed, fsaves) ==
    [NoHist EXCEPT !.op = "save", !.tokens = Some(tokens), !.ok = ok,
                   !.write_failed = failed # {}, !.fsaves = fsaves]

\* The call a get follows: a save or a clear with its result, a clear that
\* succeeded on a store that held something apart.
Preceding ==
    IF hist.op = "save" THEN (IF hist.ok THEN "save_ok" ELSE "save_failed")
    ELSE IF hist.op = "clear" THEN
        (IF ~hist.ok THEN "clear_failed"
         ELSE IF hist.empty_before THEN "clear_ok_empty" ELSE "clear_ok")
    ELSE hist.op

GetRecord(got, fault) ==
    [NoHist EXCEPT !.op = "get", !.got = got, !.fault = fault, !.pre = Preceding]

WithKeyFault(rec, key_fault, raised) ==
    [rec EXCEPT !.key_fault = key_fault, !.raised = raised]

\* The permission bits of a file, as stat reports them.
OwnerOnly == 384

\* A file created by Path.write_bytes: 0o666 less the umask (022) on a
\* POSIX system, 0o666 on Windows.
CreatedMode(plat) == IF plat = "Windows" THEN 438 ELSE 420

\* The file keeps the permission bits it has.
ChmodSkipped(plat, mode, cur) == cur

\* Path.chmod(mode): the bits become mode on a POSIX system; on Windows
\* only the read-only flag follows the owner's write bit, which 0o600
\* has, so the file is reported as 0o666.
Chmod(plat, mode, cur) == IF plat = "Windows" THEN 438 ELSE mode

\* The bits of a file that write_bytes wrote: those it had, or those of a
\* new file.
WrittenMode(plat, cur) == IF cur = None THEN CreatedMode(plat) ELSE cur[1]

\* The bits of a file of a configuration directory left by earlier calls.
SavedMode(plat, file) ==
    IF file = None THEN None
    ELSE Some(Chmod(plat, OwnerOnly, CreatedMode(plat)))

ClearRecord(ok, fault) ==
    [NoHist EXCEPT !.op = "clear", !.ok = ok, !.fault = fault,
                   !.empty_before = StoreEmpty]

\* A configuration directory: the key file and the ciphertext file.
FreshDisk == [key |-> None, tokens |-> None]

\* The state before TokenStorage(...) is called, the configuration
\* directory being one of disks.
StoreAt(disks) ==
    /\ st_pc = "new"
    /\ platform \in Platforms
    /\ force_fernet \in ForceFernetArgs
    /\ use_keyring = FALSE
    /\ probe_writes = 0
    /\ probe_out = "none"
    /\ keyring = [k \in KrKeys |-> None]
    /\ \E d \in disks : key_file = d.key /\ token_file = d.tokens
    /\ key_mode = SavedMode(platform, key_file)
    /\ token_mode = SavedMode(platform, token_file)
    /\ nops = 0
    /\ hist = NoHist

InitStore == StoreAt({FreshDisk})

\* _test_keyring: set, get and delete the key "test"; any exception gives
\* False.  out is what the keyring does: "set_error", "get_error",
\* "mismatch" (another value is read back), "delete_error" or "ok".
TestKeyringOutcomes == {"set_error", "get_error", "mismatch", "delete_error", "ok"}

\* _test_keyring that returns True without comparing the value read back.
TestKeyringResultWrong(out) == out \in {"ok", "mismatch"}

\* _test_keyring: "return test_value == 'test'", False on any exception.
TestKeyringResult(out) == out = "ok"

TestKeyringStore(out, kr) ==
    IF out = "set_error" THEN kr
    ELSE IF out \in {"get_error", "delete_error"}
         THEN [kr EXCEPT !["test"] = Some(StrTest)]
    ELSE [kr EXCEPT !["test"] = None]

\* The force_fernet branch of __init__ forces the Fernet backend.
ForcedKeyringWrong(ff) == ff = "True"

\* The force_fernet branch of __init__: use_keyring = not force_fernet.
ForcedKeyring(ff) == ff = "False"

\* TokenStorage.__init__
Construct ==
    /\ st_pc = "new"
    /\ OnlyStore
    /\ st_pc' = "ready"
    /\ IF force_fernet # "None"
       THEN /\ use_keyring' = ForcedKeyring(force_fernet)
            /\ UNCHANGED <<keyring, probe_writes, probe_out>>
       ELSE IF platform = "Windows"
       THEN /\ use_keyring' = FALSE
            /\ UNCHANGED <<keyring, probe_writes, probe_out>>
       ELSE \E out \in TestKeyringOutcomes :
            /\ use_keyring' = TestKeyringResult(out)
            /\ keyring' = TestKeyringStore(out, keyring)
            /\ probe_writes' = probe_writes + 1
            /\ probe_out' = out
    /\ UNCHANGED <<platform, force_fernet, key_file, token_file, key_mode,
                   token_mode, nops, hist>>

\* json.dumps of a dict of strings: the text lists the (key, value) pairs in
\* the dict's order.
JsonDumps(tokens) ==
    LET keep == SelectSeq(FieldOrder, LAMBDA f : f \in DOMAIN tokens)
    IN [i \in 1..Len(keep) |-> <<keep[i], tokens[keep[i]]>>]

\* json.loads: the dict of the pairs of the text, the last pair of a key
\* giving its value.
JsonLoads(text) ==
    LET keys == {text[i][1] : i \in 1..Len(text)}
        Last(k) == CHOOSE i \in 1..Len(text) :
                       /\ text[i][1] = k
                       /\ \A j \in (i + 1)..Len(text) : text[j][1] # k
    IN [k \in keys |-> text[Last(k)][2]]

\* json.loads raises JSONDecodeError unless the text is a list of (key,
\* value) pairs.
JsonValid(text) == \A i \in 1..Len(text) : Len(text[i]) = 2

\* A text json.loads rejects: a key without a value.
MalformedText == <<<<"app_key">>>>

\* Fernet.generate_key(): the key a fresh key file receives.
GeneratedKey == 1
\* The key of a key file that was there before the store was constructed.
ForeignKey == 2
\* A ciphertext no key decrypts (a torn write).
Garbage == [key |-> 0, text |-> <<>>]

\* _get_or_create_encryption_key: the persisted key, or a new key written
\* to the key file.  out "key_error": reading or creating the key raises,
\* before any key file is written.
KeyAfterRegenerates(out, kf) ==
    IF out = "key_error" THEN kf ELSE Some(GeneratedKey)

KeyAfter(out, kf) ==
    IF kf # None THEN kf
    ELSE IF out = "key_error" THEN None
    ELSE Some(GeneratedKey)

KeyRaises(out, kf) == out = "key_error"

\* The bits of the key file after _get_or_create_encryption_key.
KeyModeAfter(plat, out, kf, km) ==
    IF kf # None \/ KeyRaises(out, kf) THEN km
    ELSE Some(Chmod(plat, OwnerOnly, WrittenMode(plat, km)))

FsSaveOutcomes == {"ok", "key_error", "write_error", "write_torn", "chmod_error"}

\* The bits of the ciphertext file after _fernet_save_tokens: write_bytes
\* and then chmod(0o600).
TokenModeAfter(plat, out, kf, tm) ==
    IF KeyRaises(out, kf) \/ out = "write_error" THEN tm
    ELSE IF out \in {"write_torn", "chmod_error"}
    THEN Some(WrittenMode(plat, tm))
    ELSE Some(Chmod(plat, OwnerOnly, WrittenMode(plat, tm)))

\* _fernet_save_tokens: True once key, encryption, write and chmod went
\* through; every exception is logged and gives False.
FernetSaveOk(out, kf) == ~KeyRaises(out, kf) /\ out = "ok"

\* _fernet_save_tokens and save_tokens end every exception, that of
\* _get_or_create_encryption_key included, in "except Exception: return
\* False": no outcome leaves save_tokens as an exception.
FernetSaveRaises(out, kf) == FALSE

FernetSaveFile(out, kf, tf, tokens) ==
    IF KeyRaises(out, kf) \/ out = "write_error" THEN tf
    ELSE IF out = "write_torn" THEN Some(Garbage)
    ELSE Some([key |-> KeyAfter(out, kf)[1], text |-> JsonDumps(tokens)])

\* The keyring after the per-field set_password loop of save_tokens, the
\* writes of the keys in failed having raised.
KeyringAfterSave(kr, tokens, failed) ==
    [k \in KrKeys |->
        IF k \in DOMAIN tokens /\ k \notin failed
        THEN Some(_encode_value(tokens[k]))
        ELSE kr[k]]

\* save_tokens: "if failed_keys:" falls back to _fernet_save_tokens.
FallsBack(tokens, failed) == failed # {}

\* A save that fell back to the encrypted file makes it the backend.
BackendSwitchesOnFallback(uk, fell_back) == uk /\ ~fell_back

\* save_tokens reads self.use_keyring and does not assign it, whether it
\* falls back to _fernet_save_tokens or not.
BackendAfterSave(uk, fell_back) == uk

\* TokenStorage.save_tokens
SaveTokens ==
    /\ st_pc = "ready"
    /\ OnlyStore
    /\ nops < MaxOps
    /\ nops' = nops + 1
    /\ \E tokens \in TokenInputs :
       IF ~use_keyring
       THEN \E out \in FsSaveOutcomes :
            /\ key_file' = KeyAfter(out, key_file)
            /\ token_file' = FernetSaveFile(out, key_file, token_file, tokens)
            /\ key_mode' = KeyModeAfter(platform, out, key_file, key_mode)
            /\ token_mode' = TokenModeAfter(platform, out, key_file, token_mode)
            /\ hist' = WithKeyFault(
                           SaveRecord(tokens, FernetSaveOk(out, key_file), {}, 1),
                           KeyRaises(out, key_file),
                           FernetSaveRaises(out, key_file))
            /\ use_keyring' = BackendAfterSave(use_keyring, FALSE)
            /\ UNCHANGED keyring
       ELSE \E failed \in SUBSET (DOMAIN tokens) :
            /\ keyring' = KeyringAfterSave(keyring, tokens, failed)
            /\ use_keyring' = BackendAfterSave(use_keyring,
                                               FallsBack(tokens, failed))
            /\ IF FallsBack(tokens, failed)
               THEN \E out \in FsSaveOutcomes :
                    /\ key_file' = KeyAfter(out, key_file)
                    /\ token_file' = FernetSaveFile(out, key_file, token_file, tokens)
                    /\ key_mode' = KeyModeAfter(platform, out, key_file,
                                                key_mode)
                    /\ token_mode' = TokenModeAfter(platform, out, key_file,
                                                    token_mode)
                    /\ hist' = WithKeyFault(
                                   SaveRecord(tokens, FernetSaveOk(out, key_file),
                                              failed, 1),
                                   KeyRaises(out, key_file),
                                   FernetSaveRaises(out, key_file))
               ELSE /\ hist' = SaveRecord(tokens, TRUE, failed, 0)
                    /\ UNCHANGED <<key_file, token_file, key_mode,
                                   token_mode>>
    /\ UNCHANGED <<st_pc, platform, force_fernet, probe_writes, probe_out>>

\* The required-keys test of get_tokens with any() for all().
HasRequiredWrong(tokens) == \E f \in Fields : f \in DOMAIN tokens

\* The required-keys test of get_tokens and _fernet_get_tokens.
HasRequired(tokens) == \A f \in Fields : f \in DOMAIN tokens

\* The keyring branch of get_tokens: the fields whose stored value is truthy,
\* decoded; None unless all four are there.
KeyringTokens(kr) ==
    LET present == {f \in Fields : kr[f] # None /\ kr[f][1] # <<>>}
    IN [f \in present |-> _decode_value(kr[f][1])]

KeyringGet(kr) ==
    LET tokens == KeyringTokens(kr)
    IN IF HasRequired(tokens) THEN Some(tokens) ELSE None

FsGetOutcomes == {"ok", "key_error", "read_error"}

\* _fernet_get_tokens that takes the plaintext without Fernet's
\* verification of the token under the key.
FernetGetNoVerify(out, kf, tf) ==
    IF tf = None THEN None
    ELSE IF KeyRaises(out, kf) \/ out = "read_error" THEN None
    ELSE IF ~JsonValid(tf[1].text) THEN None
    ELSE LET tokens == JsonLoads(tf[1].text)
         IN IF HasRequired(tokens) THEN Some(tokens) ELSE None

\* _fernet_get_tokens: None when the file is missing, on InvalidToken, on
\* JSONDecodeError, on a missing required key and on any other exception.
FernetGet(out, kf, tf) ==
    IF tf = None THEN None
    ELSE IF KeyRaises(out, kf) \/ out = "read_error" THEN None
    ELSE IF tf[1].key # KeyAfter(out, kf)[1] THEN None
    ELSE IF ~JsonValid(tf[1].text) THEN None
    ELSE LET tokens == JsonLoads(tf[1].text)
         IN IF HasRequired(tokens) THEN Some(tokens) ELSE None

\* _fernet_get_tokens and get_tokens end every exception in "except
\* Exception: return None": no outcome leaves get_tokens as an exception.
FernetGetRaises(out, kf, tf) == FALSE

\* TokenStorage.get_tokens
GetTokens ==
    /\ st_pc = "ready"
    /\ OnlyStore
    /\ nops < MaxOps
    /\ nops' = nops + 1
    /\ IF ~use_keyring
       THEN \E out \in FsGetOutcomes :
            /\ key_file' = (IF token_file = None THEN key_file
                            ELSE KeyAfter(out, key_file))
            /\ key_mode' = (IF token_file = None THEN key_mode
                            ELSE KeyModeAfter(platform, out, key_file, key_mode))
            /\ hist' = WithKeyFault(
                           GetRecord(FernetGet(out, key_file, token_file),
                                     token_file # None /\ out # "ok"),
                           token_file # None /\ KeyRaises(out, key_file),
                           FernetGetRaises(out, key_file, token_file))
       ELSE \E raises \in BOOLEAN :
            /\ hist' = GetRecord(IF raises THEN None ELSE KeyringGet(keyring),
                                  raises)
            /\ UNCHANGED <<key_file, key_mode>>
    /\ UNCHANGED <<st_pc, platform, force_fernet, use_keyring, probe_writes,
                   probe_out, keyring, token_file, token_mode>>

\* The keyring branch of clear_tokens: delete_password for the four fields
\* in order; PasswordDeleteError (nothing to delete) is passed over, any
\* other exception ends the loop with False.  n fields are done before it.
KeyringAfterClear(kr, n) ==
    [k \in KrKeys |-> IF k \in Prefix(n) THEN None ELSE kr[k]]

\* clear_tokens that reports success without deleting the ciphertext file.
FileAfterClearWrong(tf, unlink_ok) == tf

\* The file branch of clear_tokens: unlink the ciphertext file if it exists.
FileAfterClear(tf, unlink_ok) == IF unlink_ok THEN None ELSE tf

\* TokenStorage.clear_tokens
ClearTokens ==
    /\ st_pc = "ready"
    /\ OnlyStore
    /\ nops < MaxOps
    /\ nops' = nops + 1
    /\ IF use_keyring
       THEN \E n \in 0..4 :
            /\ keyring' = KeyringAfterClear(keyring, n)
            /\ hist' = ClearRecord(n = 4, n # 4)
            /\ UNCHANGED <<token_file, token_mode>>
       ELSE \E unlink_ok \in BOOLEAN :
            /\ token_file' = FileAfterClear(token_file, unlink_ok)
            /\ token_mode' = FileAfterClear(token_mode, unlink_ok)
            /\ hist' = ClearRecord(token_file = None \/ unlink_ok,
                                    token_file # None /\ ~unlink_ok)
            /\ UNCHANGED keyring
    /\ UNCHANGED <<st_pc, platform, force_fernet, use_keyring, probe_writes,
                   probe_out, key_file, key_mode>>

(***************************************************************************)
(* FileOperations: upload of one local file.  A file is its size in bytes; *)
(* f_tell is the position of the open file, and a read of n bytes returns  *)
(* the bytes left up to n.  Every remote call either returns or raises.    *)
(***************************************************************************)
MiB == 1024 * 1024
CHUNK_SIZE == 4 * MiB
LARGE_FILE_THRESHOLD == 150 * MiB

Min(a, b) == IF a < b THEN a ELSE b

\* The sizes of the files transferred: empty, tiny, around one chunk, the
\* 10 MiB and 200 MiB of the tests, and sizes around the threshold and
\* around the multiples of half a chunk above it.
FileSizes ==
    {0, 1, CHUNK_SIZE - 1, CHUNK_SIZE, CHUNK_SIZE + 1, 10 * MiB, 200 * MiB}
    \cup {LARGE_FILE_THRESHOLD + k * (CHUNK_SIZE \div 2) + d :
              k \in 0..MaxExtraHalfChunks, d \in {-1, 0, 1}}

UploadBegin(pc, sizes) ==
    /\ up_pc = pc
    /\ file_size \in sizes
    /\ f_tell = 0
    /\ cursor_offset = 0
    /\ up_pbar = 0
    /\ start_len = 0
    /\ n_upload = 0
    /\ n_session_start = 0
    /\ n_session_append = 0
    /\ n_session_finish = 0
    /\ overwrite \in BOOLEAN
    /\ commit = None
    /\ up_failures = 0
    /\ up_calls = <<>>

\* The file holds as many bytes as stat reports.
UploadAt(pc, sizes) == UploadBegin(pc, sizes) /\ f_len = file_size

InitUpload == UploadAt("sizing", FileSizes)

\* The numbers of bytes that can be read from a file for which stat
\* reported size bytes: the file was cut or has grown since.
ReadableLens(size) ==
    {n \in {0, size - 2 * CHUNK_SIZE, size - CHUNK_SIZE - 1,
            size - CHUNK_SIZE, size - 1, size, size + 1, size + CHUNK_SIZE} :
        n >= 0}

InitMismatch ==
    UploadBegin("sizing", FileSizes) /\ f_len \in ReadableLens(file_size)

\* f.read(n) returns n bytes whatever is left of the file.
ReadLenWrong(size, pos, n) == n

\* f.read(n) at position pos of a file of size bytes.
ReadLen(size, pos, n) == Min(n, size - pos)

\* The size test of _upload_file with < for <=.
IsSmallWrong(size) == size < LARGE_FILE_THRESHOLD

\* _upload_file: "if file_size <= 150 * 1024 * 1024".
IsSmall(size) == size <= LARGE_FILE_THRESHOLD

\* _read_file_chunks: the number of bytes read, in windows of CHUNK_SIZE,
\* from a file of size bytes.
RECURSIVE ReadFileChunks(_, _, _)
ReadFileChunks(size, len, bytes_read) ==
    IF bytes_read < size
    THEN LET chunk == ReadLen(len, bytes_read, Min(CHUNK_SIZE, size - bytes_read))
         IN IF chunk = 0 THEN bytes_read
            ELSE ReadFileChunks(size, len, bytes_read + chunk)
    ELSE bytes_read

\* upload: "mode = WriteMode.overwrite if overwrite else WriteMode.add".
WriteModeWrong(ow) == "add"

WriteMode(ow) == IF ow THEN "overwrite" ELSE "add"

\* hashlib.sha256 over n bytes of the file: the digest stands for the
\* bytes it was computed over.
Sha256(n) == [alg |-> "sha256", bytes |-> n]

\* The arguments of the call that commits the object.  _upload_small_file
\* passes mode and content_hash to files_upload; _upload_large_file passes
\* CommitInfo(path, mode), without a content hash, to
\* files_upload_session_finish.
SmallCommit(ow, content_len) ==
    [mode |-> WriteMode(ow), content_hash |-> Some(Sha256(content_len))]

LargeCommit(ow) == [mode |-> WriteMode(ow), content_hash |-> None]

\* A remote call that raises is asked again.
OnRemoteErrorRetry(pc) == pc

\* No remote call is inside a try block that handles its exception: the
\* exception leaves _upload_file and upload ("except Exception: ... raise"),
\* _download_file and _download_large_file likewise.
OnRemoteError(pc) == "error"

Failed(raises) == IF raises THEN 1 ELSE 0

\* _upload_file: stat the file and take the small or the large path; on
\* the small path the content is read here.
UploadSizing ==
    /\ up_pc = "sizing"
    /\ OnlyUpload
    /\ IF IsSmall(file_size)
       THEN /\ f_tell' = ReadFileChunks(file_size, f_len, 0)
            /\ up_pbar' = ReadFileChunks(file_size, f_len, 0)
            /\ up_pc' = "small_upload"
       ELSE /\ up_pc' = "session_start"
            /\ UNCHANGED <<f_tell, up_pbar>>
    /\ UNCHANGED <<file_size, f_len, cursor_offset, start_len, n_upload,
                   n_session_start, n_session_append, n_session_finish,
                   overwrite, commit, up_failures, up_calls>>

\* _upload_small_file: one files_upload call with the whole content.
UploadSmallFile ==
    /\ up_pc = "small_upload"
    /\ OnlyUpload
    /\ n_upload' = n_upload + 1
    /\ commit' = Some(SmallCommit(overwrite, f_tell))
    /\ \E raises \in BOOLEAN :
        /\ up_pc' = IF raises THEN OnRemoteError("small_upload") ELSE "done"
        /\ up_failures' = up_failures + Failed(raises)
    /\ UNCHANGED <<file_size, f_len, f_tell, cursor_offset, up_pbar, start_len,
                   n_session_start, n_session_append, n_session_finish,
                   overwrite, up_calls>>

\* A call of the upload session as the remote side sees it: the offset of
\* the cursor it carries (none for start), the position in the file where
\* its payload begins, the length of the payload and whether it returned.
SessionCall(call, offset, pos, len, raises) ==
    [call |-> call, offset |-> offset, pos |-> pos, len |-> len,
     acked |-> ~raises]

\* The cursor is left where it was after an append.
CursorKept(cursor, tell) == cursor

\* "cursor.offset = f.tell()" after an append.
CursorAfterAppend(cursor, tell) == tell

\* _upload_large_file: files_upload_session_start(f.read(CHUNK_SIZE)), the
\* progress bar advanced by CHUNK_SIZE and the cursor set to f.tell().
UploadSessionStart ==
    /\ up_pc = "session_start"
    /\ OnlyUpload
    /\ n_session_start' = n_session_start + 1
    /\ start_len' = ReadLen(f_len, f_tell, CHUNK_SIZE)
    /\ f_tell' = f_tell + ReadLen(f_len, f_tell, CHUNK_SIZE)
    /\ \E raises \in BOOLEAN :
        /\ up_failures' = up_failures + Failed(raises)
        /\ up_calls' = Append(up_calls,
               SessionCall("start", None, f_tell,
                           ReadLen(f_len, f_tell, CHUNK_SIZE), raises))
        /\ IF raises
           THEN /\ up_pc' = OnRemoteError("session_start")
                /\ UNCHANGED <<up_pbar, cursor_offset>>
           ELSE /\ up_pc' = "session_loop"
                /\ up_pbar' = up_pbar + CHUNK_SIZE
                /\ cursor_offset' = f_tell'
    /\ UNCHANGED <<file_size, f_len, n_upload, n_session_append, n_session_finish,
                   overwrite, commit>>

\* The test that ends the append loop with < for <=.
IsLastChunkWrong(size, pos) == (size - pos) < CHUNK_SIZE

\* _upload_large_file: "if (file_size - f.tell()) <= self.CHUNK_SIZE".
IsLastChunk(size, pos) == (size - pos) <= CHUNK_SIZE

\* The loop body of _upload_large_file when more than a chunk is left:
\* files_upload_session_append_v2(f.read(CHUNK_SIZE), cursor).
UploadSessionAppend ==
    /\ up_pc = "session_loop"
    /\ OnlyUpload
    /\ f_tell < file_size
    /\ ~IsLastChunk(file_size, f_tell)
    /\ n_session_append < MaxAppendCalls
    /\ n_session_append' = n_session_append + 1
    /\ f_tell' = f_tell + ReadLen(f_len, f_tell, CHUNK_SIZE)
    /\ \E raises \in BOOLEAN :
        /\ up_failures' = up_failures + Failed(raises)
        /\ up_calls' = Append(up_calls,
               SessionCall("append", Some(cursor_offset), f_tell,
                           ReadLen(f_len, f_tell, CHUNK_SIZE), raises))
        /\ IF raises
           THEN /\ up_pc' = OnRemoteError("session_loop")
                /\ UNCHANGED <<up_pbar, cursor_offset>>
           ELSE /\ up_pc' = "session_loop"
                /\ cursor_offset' = CursorAfterAppend(cursor_offset, f_tell')
                /\ up_pbar' = up_pbar + CHUNK_SIZE
    /\ UNCHANGED <<file_size, f_len, start_len, n_upload, n_session_start,
                   n_session_finish, overwrite, commit>>

\* files_upload_session_finish(f.read(CHUNK_SIZE), cursor, commit): in the
\* loop when at most a chunk is left, and after the loop.
UploadSessionFinish ==
    /\ up_pc = "session_loop"
    /\ OnlyUpload
    /\ f_tell < file_size => IsLastChunk(file_size, f_tell)
    /\ n_session_finish' = n_session_finish + 1
    /\ f_tell' = f_tell + ReadLen(f_len, f_tell, CHUNK_SIZE)
    /\ commit' = Some(LargeCommit(overwrite))
    /\ \E raises \in BOOLEAN :
        /\ up_pc' = IF raises THEN OnRemoteError("session_loop") ELSE "done"
        /\ up_failures' = up_failures + Failed(raises)
        /\ up_calls' = Append(up_calls,
               SessionCall("finish", Some(cursor_offset), f_tell,
                           ReadLen(f_len, f_tell, CHUNK_SIZE), raises))
    /\ UNCHANGED <<file_size, f_len, cursor_offset, up_pbar, start_len, n_upload,
                   n_session_start, n_session_append, overwrite>>

NextUpload ==
    \/ UploadSizing
    \/ UploadSmallFile
    \/ UploadSessionStart
    \/ UploadSessionAppend
    \/ UploadSessionFinish


(***************************************************************************)
(* FileOperations: download of one remote file of meta_size bytes.  On the *)
(* large path the remote answers every download-session call with a       *)
(* number of bytes of its choice, up to CHUNK_SIZE.                        *)
(***************************************************************************)
DownloadAt(pc, sizes) ==
    /\ dl_pc = pc
    /\ meta_size \in sizes
    /\ dl_written = 0
    /\ dl_pbar = 0
    /\ dl_cursor = None
    /\ dl_resps = <<>>
    /\ n_get_metadata = 0
    /\ n_download = 0
    /\ n_dl_session_start = 0
    /\ n_dl_session_append = 0
    /\ dl_failures = 0
    /\ dl_local \in {None, Some("previous")}

InitDownload == DownloadAt("metadata", FileSizes)

\* The size test of _download_file with >= for >.
IsLargeDownloadWrong(size) == size >= LARGE_FILE_THRESHOLD

\* _download_file: "metadata.size > 150 * 1024 * 1024".
IsLargeDownload(size) == size > LARGE_FILE_THRESHOLD

\* _download_file: files_get_metadata, then the choice of the path.
DownloadMetadata ==
    /\ dl_pc = "metadata"
    /\ OnlyDownload
    /\ n_get_metadata' = n_get_metadata + 1
    /\ \E raises \in BOOLEAN :
        /\ dl_failures' = dl_failures + Failed(raises)
        /\ dl_pc' = IF raises THEN OnRemoteError("metadata")
                    ELSE IF IsLargeDownload(meta_size) THEN "large_metadata"
                    ELSE "small_download"
    /\ UNCHANGED <<meta_size, dl_written, dl_pbar, dl_cursor, dl_resps,
                   n_download, n_dl_session_start, n_dl_session_append,
                   dl_local>>

\* The destination after open(local_path, "wb"): a new file, or the file
\* that was there cut to no bytes; it holds what the download writes from
\* then on.
OpenWb(local) == IF local = None THEN Some("new") ELSE Some("replaced")

\* _download_file, small path: the destination is opened, then one
\* files_download call whose body is written to it in windows of CHUNK_SIZE.
DownloadSmallFile ==
    /\ dl_pc = "small_download"
    /\ OnlyDownload
    /\ n_download' = n_download + 1
    /\ dl_local' = OpenWb(dl_local)
    /\ \E raises \in BOOLEAN :
        /\ dl_failures' = dl_failures + Failed(raises)
        /\ IF raises
           THEN /\ dl_pc' = OnRemoteError("small_download")
                /\ UNCHANGED <<dl_written, dl_pbar>>
           ELSE /\ dl_pc' = "done"
                /\ dl_written' = meta_size
                /\ dl_pbar' = meta_size
    /\ UNCHANGED <<meta_size, dl_cursor, dl_resps, n_get_metadata,
                   n_dl_session_start, n_dl_session_append>>

\* _download_large_file: its own files_get_metadata call, and the
\* destination opened once it returned.
DownloadLargeMetadata ==
    /\ dl_pc = "large_metadata"
    /\ OnlyDownload
    /\ n_get_metadata' = n_get_metadata + 1
    /\ \E raises \in BOOLEAN :
        /\ dl_failures' = dl_failures + Failed(raises)
        /\ dl_pc' = IF raises THEN OnRemoteError("large_metadata")
                    ELSE "session_loop"
        /\ dl_local' = IF raises THEN dl_local ELSE OpenWb(dl_local)
    /\ UNCHANGED <<meta_size, dl_written, dl_pbar, dl_cursor, dl_resps,
                   n_download, n_dl_session_start, n_dl_session_append>>

\* The numbers of bytes a download-session call returns.
ResponseSizes == {0, CHUNK_SIZE \div 2, CHUNK_SIZE - 1, CHUNK_SIZE}

\* The test that ends the download loop with <= for <.
IsShortReadWrong(n) == n <= CHUNK_SIZE

\* _download_large_file: "if len(data) < self.CHUNK_SIZE: break".
IsShortRead(n) == n < CHUNK_SIZE

\* The body of the loop after the session call returned n bytes: write
\* them, advance the progress bar, stop on a short read or set the cursor.
SessionData(n) ==
    /\ dl_resps' = Append(dl_resps, n)
    /\ dl_written' = dl_written + n
    /\ dl_pbar' = dl_pbar + n
    /\ IF IsShortRead(n)
       THEN dl_pc' = "done" /\ UNCHANGED dl_cursor
       ELSE dl_pc' = "session_loop" /\ dl_cursor' = Some(dl_written + n)

\* A turn of the loop with cursor None: files_download_session_start()
\* returns one of the given numbers of bytes, or raises.
SessionStart(sizes) ==
    /\ dl_pc = "session_loop"
    /\ OnlyDownload
    /\ dl_cursor = None
    /\ n_dl_session_start' = n_dl_session_start + 1
    /\ \/ \E n \in sizes : SessionData(n) /\ UNCHANGED dl_failures
       \/ /\ dl_pc' = OnRemoteError("session_loop")
          /\ dl_failures' = dl_failures + 1
          /\ UNCHANGED <<dl_written, dl_pbar, dl_cursor, dl_resps>>
    /\ UNCHANGED <<meta_size, n_get_metadata, n_download, n_dl_session_append,
                   dl_local>>

\* A turn of the loop with the cursor set:
\* files_download_session_append(cursor) returns one of the given numbers
\* of bytes, or raises.
SessionAppend(sizes) ==
    /\ dl_pc = "session_loop"
    /\ OnlyDownload
    /\ dl_cursor # None
    /\ n_dl_session_append' = n_dl_session_append + 1
    /\ \/ \E n \in sizes : SessionData(n) /\ UNCHANGED dl_failures
       \/ /\ dl_pc' = OnRemoteError("session_loop")
          /\ dl_failures' = dl_failures + 1
          /\ UNCHANGED <<dl_written, dl_pbar, dl_cursor, dl_resps>>
    /\ UNCHANGED <<meta_size, n_get_metadata, n_download, n_dl_session_start,
                   dl_local>>

\* _download_large_file, cursor None, with a remote that returns what it
\* likes.
DownloadSessionStart ==
    /\ Len(dl_resps) < MaxSessionCalls
    /\ SessionStart(ResponseSizes)

\* _download_large_file, cursor set, with a remote that returns what it
\* likes.
DownloadSessionAppend ==
    /\ Len(dl_resps) < MaxSessionCalls
    /\ SessionAppend(ResponseSizes)

\* The window of at most CHUNK_SIZE bytes that follows the bytes written
\* so far, of an object of size bytes: short or empty at the end.
ServedWindow(size, written) == Min(CHUNK_SIZE, size - written)

\* _download_large_file, cursor None, with a remote that serves the object
\* in consecutive windows.
ServedSessionStart == SessionStart({ServedWindow(meta_size, dl_written)})

\* _download_large_file, cursor set, with a remote that serves the object
\* in consecutive windows.
ServedSessionAppend == SessionAppend({ServedWindow(meta_size, dl_written)})

NextDownload ==
    \/ DownloadMetadata
    \/ DownloadSmallFile
    \/ DownloadLargeMetadata
    \/ DownloadSessionStart
    \/ DownloadSessionAppend

(***************************************************************************)
(* upload of a directory of b_nfiles small files, numbered in the order of *)
(* path.rglob.  FileOperations.upload uploads them one after the other in  *)
(* the caller's thread; DropboxOperations.upload (b_pooled) submits one    *)
(* _upload_file task per file to a ThreadPoolExecutor of max_workers       *)
(* threads and then takes the futures' results in submission order.        *)
(***************************************************************************)
WorkerCounts == {1, 4}

BatchAt(pc, counts) ==
    /\ b_pc = pc
    /\ b_pooled \in BOOLEAN
    /\ max_workers \in WorkerCounts
    /\ b_nfiles \in counts
    /\ b_submitted = 0
    /\ b_task = [i \in 1..b_nfiles |-> "new"]
    /\ b_results = <<>>
    /\ b_collected = 0
    /\ b_overwrite \in BOOLEAN
    /\ b_modes = [i \in 1..b_nfiles |-> "none"]

InitBatch == BatchAt("walk", 0..MaxFiles)

\* The result list replaced by the new record.
ResultsReplace(results, i) == <<i>>

\* results.append(self._process_metadata(result))
ResultsAppend(results, i) == Append(results, i)

\* FileOperations.upload, directory branch: _upload_file on the next file;
\* its exception is logged and raised again.
BatchUploadNext ==
    /\ b_pc = "walk"
    /\ OnlyBatch
    /\ ~b_pooled
    /\ b_submitted < b_nfiles
    /\ b_submitted' = b_submitted + 1
    /\ \E raises \in BOOLEAN :
        IF raises
        THEN /\ b_pc' = "raised"
             /\ b_task' = [b_task EXCEPT ![b_submitted + 1] = "failed"]
             /\ UNCHANGED b_results
        ELSE /\ b_pc' = "walk"
             /\ b_task' = [b_task EXCEPT ![b_submitted + 1] = "ok"]
             /\ b_results' = ResultsAppend(b_results, b_submitted + 1)
    /\ b_modes' = [b_modes EXCEPT ![b_submitted + 1] = WriteMode(b_overwrite)]
    /\ UNCHANGED <<b_pooled, max_workers, b_nfiles, b_collected, b_overwrite>>

\* FileOperations.upload: return pd.DataFrame(results).
BatchUploadReturn ==
    /\ b_pc = "walk"
    /\ OnlyBatch
    /\ ~b_pooled
    /\ b_submitted = b_nfiles
    /\ b_pc' = "returned"
    /\ UNCHANGED <<b_pooled, max_workers, b_nfiles, b_submitted, b_task,
                   b_results, b_collected, b_overwrite, b_modes>>

\* DropboxOperations.upload: executor.submit(self._upload_file, ...).
BatchSubmit ==
    /\ b_pc = "walk"
    /\ OnlyBatch
    /\ b_pooled
    /\ b_submitted < b_nfiles
    /\ b_submitted' = b_submitted + 1
    /\ b_task' = [b_task EXCEPT ![b_submitted + 1] = "queued"]
    /\ b_modes' = [b_modes EXCEPT ![b_submitted + 1] = WriteMode(b_overwrite)]
    /\ UNCHANGED <<b_pc, b_pooled, max_workers, b_nfiles, b_results, b_collected,
                   b_overwrite>>

Running == {i \in 1..b_nfiles : b_task[i] = "running"}
Queued == {i \in 1..b_nfiles : b_task[i] = "queued"}

\* A pool thread takes the oldest queued task; at most max_workers run.
WorkerStart ==
    /\ b_pooled
    /\ OnlyBatch
    /\ Queued # {}
    /\ Cardinality(Running) < max_workers
    /\ LET i == CHOOSE j \in Queued : \A k \in Queued : j <= k
       IN b_task' = [b_task EXCEPT ![i] = "running"]
    /\ UNCHANGED <<b_pc, b_pooled, max_workers, b_nfiles, b_submitted,
                   b_results, b_collected, b_overwrite, b_modes>>

\* A running _upload_file task returns its metadata or raises.
WorkerFinish ==
    /\ b_pooled
    /\ OnlyBatch
    /\ \E i \in Running, raises \in BOOLEAN :
        b_task' = [b_task EXCEPT ![i] = IF raises THEN "failed" ELSE "ok"]
    /\ UNCHANGED <<b_pc, b_pooled, max_workers, b_nfiles, b_submitted,
                   b_results, b_collected, b_overwrite, b_modes>>

\* DropboxOperations.upload: future.result() of the next future, once it is
\* done; the exception of a failed task is raised here.
BatchCollect ==
    /\ b_pc = "walk"
    /\ OnlyBatch
    /\ b_pooled
    /\ b_submitted = b_nfiles
    /\ b_collected < b_nfiles
    /\ b_task[b_collected + 1] \in {"ok", "failed"}
    /\ IF b_task[b_collected + 1] = "ok"
       THEN /\ b_results' = ResultsAppend(b_results, b_collected + 1)
            /\ b_collected' = b_collected + 1
            /\ UNCHANGED b_pc
       ELSE /\ b_pc' = "failing"
            /\ UNCHANGED <<b_results, b_collected>>
    /\ UNCHANGED <<b_pooled, max_workers, b_nfiles, b_submitted, b_task,
                   b_overwrite, b_modes>>

\* DropboxOperations.upload: the with block ends once every task is done
\* (shutdown waits); then the DataFrame is returned, or the exception is
\* logged by "except Exception" and None is returned.
BatchPoolReturn ==
    /\ b_pooled
    /\ OnlyBatch
    /\ \/ b_pc = "walk" /\ b_submitted = b_nfiles /\ b_collected = b_nfiles
       \/ b_pc = "failing"
    /\ Running = {} /\ Queued = {}
    /\ b_pc' = IF b_pc = "failing" THEN "returned_none" ELSE "returned"
    /\ UNCHANGED <<b_pooled, max_workers, b_nfiles, b_submitted, b_task,
                   b_results, b_collected, b_overwrite, b_modes>>

NextBatch ==
    \/ BatchUploadNext
    \/ BatchUploadReturn
    \/ BatchSubmit
    \/ WorkerStart
    \/ WorkerFinish
    \/ BatchCollect
    \/ BatchPoolReturn


(***************************************************************************)
(* Authenticator.authenticate_dropbox.  The token storage is seen through  *)
(* its interface: get_tokens returns a set or None (a_stored), save_tokens *)
(* returns True or False.  a_ret is the value returned, once returned.     *)
(***************************************************************************)
AuthAt(pc) ==
    /\ a_pc = pc
    /\ force_reauth \in BOOLEAN
    /\ a_stored \in BOOLEAN
    /\ a_gets = 0
    /\ a_creds = "none"
    /\ a_exchanges = 0
    /\ a_exchanged = FALSE
    /\ a_save_results = <<>>
    /\ a_ret = None
    /\ a_outs = <<>>
    /\ a_now = 0
    /\ rl_attempts = [count |-> 0, last |-> 0]
    /\ a_hist = <<>>
    /\ c_pc = "idle"
    /\ c_creds = "none"
    /\ c_outs = <<>>
    /\ c_ret = None

InitAuth == AuthAt("begin")

\* rate_limit(max_attempts=3, cooldown=300).
MaxAttempts == 3
Cooldown == 300

\* The dictionary "attempts" of the decorator, read through
\* attempts.get(key, 0) only: a missing key reads as 0.
NoAttempts == [count |-> 0, last |-> 0]

\* "attempts.clear()" at the head of the wrapper.
ClearOld(attempts) == NoAttempts

\* The tail of the wrapper: "if not result:" the counter goes up by one
\* and the time of the call is kept; then "return result".
AuthReturn(v) ==
    /\ a_pc' = "returned"
    /\ a_ret' = Some(v)
    /\ rl_attempts' = IF v THEN rl_attempts
                      ELSE [count |-> rl_attempts.count + 1, last |-> a_now]
    /\ a_hist' = Append(a_hist, [at |-> a_now, ret |-> v, ran |-> TRUE])

\* The call goes on at pc.
AuthContinue(pc) ==
    /\ a_pc' = pc
    /\ UNCHANGED <<a_ret, rl_attempts, a_hist>>

\* Seconds between the return of a call and the next call.
Gaps == {1, Cooldown}

\* A further call of the decorated authenticate_dropbox, a_now seconds
\* after the first: the head of the wrapper.  The first call is the
\* initial state: the dictionary is empty and the call is let through.
AuthCall ==
    /\ a_pc = "returned"
    /\ c_pc = "idle"
    /\ Len(a_hist) < MaxCalls
    /\ OnlyAuth
    /\ \E gap \in Gaps :
        LET now == a_now + gap
            old == ClearOld(rl_attempts)
            limited == old.count >= MaxAttempts
        IN /\ a_now' = now
           /\ IF limited /\ now - old.last < Cooldown
              THEN /\ a_pc' = "returned"
                   /\ a_ret' = Some(FALSE)
                   /\ rl_attempts' = old
                   /\ a_hist' = Append(a_hist, [at |-> now, ret |-> FALSE,
                                                ran |-> FALSE])
              ELSE /\ a_pc' = "begin"
                   /\ a_ret' = None
                   /\ rl_attempts' = IF limited THEN [old EXCEPT !.count = 0]
                                     ELSE old
                   /\ UNCHANGED a_hist
    /\ a_gets' = 0
    /\ a_creds' = "none"
    /\ a_exchanges' = 0
    /\ a_exchanged' = FALSE
    /\ a_save_results' = <<>>
    /\ a_outs' = <<>>
    /\ UNCHANGED <<force_reauth, a_stored, client_vars>>

\* get_tokens is called even with force_reauth.
ConsultsStoreAlways(fr) == TRUE

\* "if not force_reauth:"
ConsultsStore(fr) == ~fr

\* get_tokens if the store is consulted, and True at once if it returns a
\* set.
AuthCheckExisting ==
    /\ a_pc = "begin"
    /\ OnlyAuth
    /\ IF ConsultsStore(force_reauth)
       THEN /\ a_gets' = a_gets + 1
            /\ IF a_stored THEN AuthReturn(TRUE)
               ELSE AuthContinue("setup")
       ELSE /\ AuthContinue("setup")
            /\ UNCHANGED a_gets
    /\ UNCHANGED <<force_reauth, a_stored, a_creds, a_exchanges, a_exchanged,
                   a_save_results, a_outs, a_now, client_vars>>

\* setup_credentials returns the key and the secret entered ("given") or
\* (None, None) when one of them was left empty twice ("missing").
SetupCredentials == {"given", "missing"}

\* setup_credentials, DropboxOAuth2FlowNoRedirect, flow.start and the input
\* of the first code; an exception of any of them ends in "except
\* Exception: return False".
AuthSetup ==
    /\ a_pc = "setup"
    /\ OnlyAuth
    /\ \E creds \in SetupCredentials, raises \in BOOLEAN :
        /\ a_creds' = creds
        /\ IF raises THEN AuthReturn(FALSE)
           ELSE AuthContinue("exchange")
    /\ UNCHANGED <<force_reauth, a_stored, a_gets, a_exchanges, a_exchanged,
                   a_save_results, a_outs, a_now, client_vars>>

\* flow.finish(auth_code) returns ("ok"), raises AuthError and the prompt
\* for another code returns one ("auth_error"), raises AuthError and the
\* prompt raises ("prompt_error"), or raises another exception ("error").
ExchangeOutcomes == {"ok", "auth_error", "prompt_error", "error"}

\* An AuthError of flow.finish is taken for a code that was accepted.
OnAuthErrorWrong == "save"

\* "except AuthError:" the next code is read and the loop goes round.
OnAuthError == "exchange"

\* The "while True" loop: flow.finish(auth_code); AuthError asks for another
\* code, any other exception ends in "except Exception: return False".
AuthExchange ==
    /\ a_pc = "exchange"
    /\ OnlyAuth
    /\ a_exchanges < MaxAuthCodes
    /\ a_exchanges' = a_exchanges + 1
    /\ \E out \in ExchangeOutcomes :
        /\ a_outs' = Append(a_outs, out)
        /\ IF out = "ok"
           THEN AuthContinue("save") /\ a_exchanged' = TRUE
           ELSE IF out = "auth_error"
           THEN AuthContinue(OnAuthError) /\ UNCHANGED a_exchanged
           ELSE AuthReturn(FALSE) /\ UNCHANGED a_exchanged
    /\ UNCHANGED <<force_reauth, a_stored, a_gets, a_creds, a_save_results,
                   a_now, client_vars>>

\* The save loop that goes on after a save that succeeded.
MoreSaveAttemptsWrong(results) == Len(results) < 2

\* "for attempt in range(2)" with "return True" on a save that succeeded.
MoreSaveAttempts(results) ==
    /\ Len(results) < 2
    /\ \A i \in 1..Len(results) : ~results[i]

\* One turn of the save loop: save_tokens(tokens); True is returned on
\* success, False once the loop is over.
AuthSave ==
    /\ a_pc = "save"
    /\ OnlyAuth
    /\ \E ok \in BOOLEAN :
        LET results == Append(a_save_results, ok)
        IN /\ a_save_results' = results
           /\ a_stored' = (a_stored \/ ok)
           /\ IF MoreSaveAttempts(results)
              THEN AuthContinue("save")
              ELSE AuthReturn(ok)
    /\ UNCHANGED <<force_reauth, a_gets, a_creds, a_exchanges, a_exchanged,
                   a_outs, a_now, client_vars>>

(***************************************************************************)
(* Authenticator.get_dropbox_client, called once authenticate_dropbox has  *)
(* returned.  c_ret is Some("client") or Some("None") once it returned.    *)
(***************************************************************************)
\* What self.storage.get_tokens() returns: None, a set with the four
\* fields, a set whose access_token is empty, or, from a storage object
\* put in place of the TokenStorage, a set without refresh_token.
ClientCredentials(stored) ==
    IF stored THEN {"full", "no_access_token", "lacking"} ELSE {"none"}

\* The constructor of the client is outside of the "try".
InTryWrong(step) == step \notin {"get_tokens", "construct"}

\* "try:" opens after get_tokens and "if not credentials", and its
\* "except Exception" covers all that follows.
InTry(step) == step # "get_tokens"

\* TokenStorage.get_tokens ends in "except Exception: return None".
ClientGetRaises == FALSE

ClientReturn(v) ==
    /\ c_pc' = "returned"
    /\ c_ret' = Some(v)

\* An exception at a step: "return None" under the try, raised otherwise.
ClientFail(step) ==
    IF InTry(step) THEN ClientReturn("None")
    ELSE c_pc' = "raised" /\ UNCHANGED c_ret

\* get_tokens, "if not credentials: return None", the keyword arguments
\* (KeyError on a missing field) and dropbox.Dropbox(**kwargs).
ClientGet ==
    /\ a_pc = "returned"
    /\ c_pc = "idle"
    /\ OnlyAuth
    /\ IF ClientGetRaises
       THEN ClientFail("get_tokens") /\ UNCHANGED c_creds
       ELSE \E creds \in ClientCredentials(a_stored), raises \in BOOLEAN :
            /\ c_creds' = creds
            /\ IF creds = "none" THEN ClientReturn("None")
               ELSE IF creds = "lacking" THEN ClientFail("kwargs")
               ELSE IF raises THEN ClientFail("construct")
               ELSE c_pc' = "check" /\ UNCHANGED c_ret
    /\ UNCHANGED <<a_pc, force_reauth, a_stored, a_ret, a_now, rl_attempts,
                   a_hist, call_vars, c_outs>>

CheckOutcomes == {"ok", "auth_error", "error"}

\* users_get_current_account is called a second time in the handler of
\* the first AuthError, and not again in the handler of the second.
CheckAgain(outs) == Len(outs) < 2

\* dbx.users_get_current_account(): the client is returned when it
\* succeeds, None on the second AuthError and on any other exception.
ClientCheck ==
    /\ c_pc = "check"
    /\ OnlyAuth
    /\ \E out \in CheckOutcomes :
        LET outs == Append(c_outs, out)
        IN /\ c_outs' = outs
           /\ IF out = "ok" THEN ClientReturn("client")
              ELSE IF out = "auth_error"
              THEN IF CheckAgain(outs) THEN UNCHANGED <<c_pc, c_ret>>
                   ELSE ClientReturn("None")
              ELSE ClientFail("check")
    /\ UNCHANGED <<a_pc, force_reauth, a_stored, a_ret, a_now, rl_attempts,
                   a_hist, call_vars, c_creds>>

NextAuth ==
    \/ AuthCheckExisting
    \/ AuthSetup
    \/ AuthExchange
    \/ AuthSave
    \/ AuthCall
    \/ ClientGet
    \/ ClientCheck

\* Configuration directories left by earlier runs or altered from outside:
\* a ciphertext file that is corrupted, one made with another key, one whose
\* plaintext is not JSON, one whose key file is gone, an intact pair, and
\* the pair left by a save_tokens of a dict whose access token is empty.
FullA == [f \in Fields |-> StrA]
UsedDisks ==
    {[key |-> Some(ForeignKey), tokens |-> Some(Garbage)],
     [key |-> Some(ForeignKey),
      tokens |-> Some([key |-> GeneratedKey, text |-> JsonDumps(FullA)])],
     [key |-> Some(ForeignKey),
      tokens |-> Some([key |-> ForeignKey, text |-> MalformedText])],
     [key |-> None,
      tokens |-> Some([key |-> ForeignKey, text |-> JsonDumps(FullA)])],
     [key |-> Some(ForeignKey),
      tokens |-> Some([key |-> ForeignKey, text |-> JsonDumps(FullA)])],
     [key |-> Some(ForeignKey),
      tokens |-> Some([key |-> ForeignKey,
                       text |-> JsonDumps(EmptyAccessToken)])]}

\* TokenStorage(force_fernet=True) on a used configuration directory.
InitDisk == StoreAt(UsedDisks) /\ force_fernet = "True"

(***************************************************************************)
(* get_tokens called by several threads on one TokenStorage, with no save  *)
(* or clear under way.  Every access to the keyring or to a file is a      *)
(* step of its own; Path.write_bytes opens the file, which truncates it,   *)
(* and then writes.                                                        *)
(***************************************************************************)
Getters == 1..MaxGetters

\* The content of a key file that was opened for writing and not written.
EmptyKey == -1
\* Fernet.generate_key() in thread t: a key no other call produces.
FreshKey(t) == 10 + t

NotReturned == <<>>
Returned(v) == <<v>>

ConcAt(pc) ==
    /\ cg_pc = [t \in Getters |-> pc]
    /\ cg_n = [t \in Getters |-> 0]
    /\ cg_tokens = [t \in Getters |-> <<>>]
    /\ cg_key = [t \in Getters |-> None]
    /\ cg_ret = [t \in Getters |-> NotReturned]

EmptyKeyring == [k \in KrKeys |-> None]

\* The keyrings the threads find: empty, holding a full set, holding three
\* of its fields.
UsedKeyrings ==
    {EmptyKeyring,
     KeyringAfterSave(EmptyKeyring, [f \in Fields |-> StrEuro], {}),
     KeyringAfterSave(EmptyKeyring, [f \in Fields |-> StrEuro], {"refresh_token"})}

\* A constructed store that holds what earlier calls left, and the threads
\* about to call get_tokens.
InitConc ==
    /\ st_pc = "ready"
    /\ platform = "Linux"
    /\ force_fernet \in {"True", "False"}
    /\ use_keyring = ForcedKeyring(force_fernet)
    /\ probe_writes = 0
    /\ probe_out = "none"
    /\ nops = 0
    /\ hist = NoHist
    /\ keyring \in (IF use_keyring THEN UsedKeyrings ELSE {EmptyKeyring})
    /\ \E d \in (IF use_keyring THEN {FreshDisk} ELSE UsedDisks \cup {FreshDisk}) :
           key_file = d.key /\ token_file = d.tokens
    /\ key_mode = SavedMode(platform, key_file)
    /\ token_mode = SavedMode(platform, token_file)
    /\ cg_init = [keyring |-> keyring, key |-> key_file, tokens |-> token_file]
    /\ ConcAt("start")

ConcReturn(t, v) ==
    /\ cg_pc' = [cg_pc EXCEPT ![t] = "done"]
    /\ cg_ret' = [cg_ret EXCEPT ![t] = Returned(v)]

\* get_tokens, keyring branch: keyring.get_password of the next field, kept
\* decoded if truthy; after the fourth the dict is returned if complete.
ConcKeyringRead ==
    /\ OnlyConc
    /\ \E t \in Getters :
        /\ cg_pc[t] = "start"
        /\ use_keyring
        /\ LET f == FieldOrder[cg_n[t] + 1]
               v == keyring[f]
               tokens == IF v # None /\ v[1] # <<>>
                         THEN cg_tokens[t] @@ (f :> _decode_value(v[1]))
                         ELSE cg_tokens[t]
           IN /\ cg_n' = [cg_n EXCEPT ![t] = @ + 1]
              /\ cg_tokens' = [cg_tokens EXCEPT ![t] = tokens]
              /\ IF cg_n[t] + 1 = Len(FieldOrder)
                 THEN ConcReturn(t, IF HasRequired(tokens) THEN Some(tokens)
                                    ELSE None)
                 ELSE UNCHANGED <<cg_pc, cg_ret>>
    /\ UNCHANGED <<keyring, key_file, token_file, cg_key, cg_init>>

\* _fernet_get_tokens: "if not token_path.exists(): return None".
ConcTokenExists ==
    /\ OnlyConc
    /\ \E t \in Getters :
        /\ cg_pc[t] = "start"
        /\ ~use_keyring
        /\ IF token_file = None
           THEN ConcReturn(t, None)
           ELSE /\ cg_pc' = [cg_pc EXCEPT ![t] = "key_exists"]
                /\ UNCHANGED cg_ret
    /\ UNCHANGED <<keyring, key_file, token_file, cg_n, cg_tokens, cg_key,
                   cg_init>>

\* _get_or_create_encryption_key that takes every key file for missing.
KeyExistsWrong(kf) == FALSE

\* _get_or_create_encryption_key: "if key_path.exists()".
KeyExists(kf) == kf # None

ConcKeyExists ==
    /\ OnlyConc
    /\ \E t \in Getters :
        /\ cg_pc[t] = "key_exists"
        /\ cg_pc' = [cg_pc EXCEPT ![t] = IF KeyExists(key_file) THEN "key_read"
                                         ELSE "key_open"]
    /\ UNCHANGED <<keyring, key_file, token_file, cg_n, cg_tokens, cg_key,
                   cg_ret, cg_init>>

\* _get_or_create_encryption_key: "return key_path.read_bytes()".
ConcKeyRead ==
    /\ OnlyConc
    /\ \E t \in Getters :
        /\ cg_pc[t] = "key_read"
        /\ cg_key' = [cg_key EXCEPT ![t] = key_file]
        /\ cg_pc' = [cg_pc EXCEPT ![t] = "token_read"]
    /\ UNCHANGED <<keyring, key_file, token_file, cg_n, cg_tokens, cg_ret,
                   cg_init>>

\* key_path.write_bytes(key): the file is opened, and so truncated.
ConcKeyOpen ==
    /\ OnlyConc
    /\ \E t \in Getters :
        /\ cg_pc[t] = "key_open"
        /\ key_file' = Some(EmptyKey)
        /\ cg_pc' = [cg_pc EXCEPT ![t] = "key_write"]
    /\ UNCHANGED <<keyring, token_file, cg_n, cg_tokens, cg_key, cg_ret,
                   cg_init>>

\* key_path.write_bytes(key): the generated key is written and returned.
ConcKeyWrite ==
    /\ OnlyConc
    /\ \E t \in Getters :
        /\ cg_pc[t] = "key_write"
        /\ key_file' = Some(FreshKey(t))
        /\ cg_key' = [cg_key EXCEPT ![t] = Some(FreshKey(t))]
        /\ cg_pc' = [cg_pc EXCEPT ![t] = "token_read"]
    /\ UNCHANGED <<keyring, token_file, cg_n, cg_tokens, cg_ret, cg_init>>

\* _fernet_get_tokens from Fernet(key) on: a key that is no Fernet key
\* raises ValueError, which gives None; else token_path.read_bytes(),
\* decrypt, json.loads and the required-keys test.
ConcTokenRead ==
    /\ OnlyConc
    /\ \E t \in Getters :
        /\ cg_pc[t] = "token_read"
        /\ ConcReturn(t, IF cg_key[t] = Some(EmptyKey) THEN None
                         ELSE FernetGet("ok", cg_key[t], token_file))
    /\ UNCHANGED <<keyring, key_file, token_file, cg_n, cg_tokens, cg_key,
                   cg_init>>

NextConc ==
    \/ ConcKeyringRead
    \/ ConcTokenExists
    \/ ConcKeyExists
    \/ ConcKeyRead
    \/ ConcKeyOpen
    \/ ConcKeyWrite
    \/ ConcTokenRead

NextStore == Construct \/ SaveTokens \/ GetTokens \/ ClearTokens

NextCodec == CodecEncode \/ CodecDecode

(***************************************************************************)
(* Listings of a remote folder: BaseOperations.list_files and its callers  *)
(* FolderOperations.get_folder_size, FolderOperations.get_folder_structure *)
(* and the folder branch of FileOperations.download.  Paths are relative   *)
(* to the folder listed, as sequences of names.                            *)
(***************************************************************************)
FileEntry(path, size) == [path |-> path, type |-> "file", size |-> size]

\* _process_metadata: "size" is 0 for a FolderMetadata.
FolderEntry(path) == [path |-> path, type |-> "folder", size |-> 0]

\* All that the remote folder can hold, in the order the remote lists it:
\* two files, a subfolder with a file, and a folder with a file below it.
RemoteUniverse ==
    << FileEntry(<<"file1">>, 1),
       FileEntry(<<"file2">>, 2),
       FolderEntry(<<"subfolder">>),
       FileEntry(<<"subfolder", "file3">>, 4),
       FolderEntry(<<"subfolder", "deep">>),
       FileEntry(<<"subfolder", "deep", "file4">>, 8) >>

RemoteFiles ==
    {RemoteUniverse[i].path : i \in {j \in 1..Len(RemoteUniverse) :
                                        RemoteUniverse[j].type = "file"}}

IsPrefix(p, q) == Len(p) < Len(q) /\ SubSeq(q, 1, Len(p)) = p

\* A file is there if the folder holds it, a folder if it holds a file
\* below it.
Present(e, tree) ==
    IF e.type = "file" THEN e.path \in tree
    ELSE \E p \in tree : IsPrefix(e.path, p)

\* What files_list_folder(path, recursive) lists in all: the entries at
\* every depth if recursive, else the direct children.
RemoteEntries(tree, recursive) ==
    SelectSeq(RemoteUniverse,
              LAMBDA e : Present(e, tree) /\ (recursive \/ Len(e.path) = 1))

\* The page of a listing that starts after "from" entries: a
\* ListFolderResult with entries, ls_has_more and ls_cursor.
ListFolderResult(tree, recursive, size, from) ==
    LET all == RemoteEntries(tree, recursive)
        to == Min(from + size, Len(all))
    IN [entries |-> SubSeq(all, from + 1, to),
        has_more |-> to < Len(all),
        cursor |-> Some(to)]

\* "recursive=filter_criteria.recursive if filter_criteria else False" with
\* the filter_criteria of each caller: get_folder_structure passes
\* FileFilter(recursive=True), get_folder_size and download pass none.
Recursive(caller, flag) ==
    IF caller = "get_folder_structure" THEN TRUE
    ELSE IF caller = "list_files" THEN flag
    ELSE FALSE

Callers == {"list_files", "get_folder_size", "get_folder_structure",
            "download"}

\* Entries of a page of the remote.
PageSizes == {1, 2, 3}

RECURSIVE Concat(_)
\* pd.concat(all_entries, ignore_index=True)
Concat(pages) ==
    IF pages = <<>> THEN <<>> ELSE Head(pages) \o Concat(Tail(pages))

RECURSIVE SizeSum(_)
\* folder_contents["size"].sum()
SizeSum(entries) ==
    IF entries = <<>> THEN 0 ELSE Head(entries).size + SizeSum(Tail(entries))

ListAt(pc) ==
    /\ ls_pc = pc
    /\ ls_caller \in Callers
    /\ ls_tree \in (SUBSET RemoteFiles) \ {{}}
    /\ ls_page_size \in PageSizes
    /\ ls_flag \in BOOLEAN
    /\ ls_flag => ls_caller = "list_files"
    /\ ls_has_more = TRUE
    /\ ls_cursor = None
    /\ all_entries = <<>>
    /\ ls_calls = <<>>
    /\ ls_results = <<>>
    /\ fd_seen = 0
    /\ fd_written = {}
    /\ fd_results = <<>>
    /\ fs_ret = None

InitList == ListAt("call")

\* The listing stops after its first page.
LoopOnFirstOnly(more, pages) == more /\ pages = <<>>

\* "while has_more:"
LoopOn(more, pages) == more

\* "if cursor:"
CursorSet(c) == c # None

\* The head of a caller up to its call of list_files: download asks for the
\* metadata of the path first, which may raise.
ListCall ==
    /\ ls_pc = "call"
    /\ OnlyList
    /\ \E raises \in BOOLEAN :
        ls_pc' = IF ls_caller = "download" /\ raises THEN "error"
                 ELSE "listing"
    /\ UNCHANGED <<ls_input, ls_loop, fd_vars, fs_ret>>

\* The tail of a turn of the loop: the page is appended, ls_has_more and
\* ls_cursor are taken from the result; an ApiError of the call is raised.
ListTurn(call, from, raises) ==
    LET result == ListFolderResult(ls_tree, Recursive(ls_caller, ls_flag),
                                   ls_page_size, from)
    IN /\ ls_calls' = Append(ls_calls, [call |-> call, cursor |-> ls_cursor])
       /\ IF raises
          THEN /\ ls_pc' = "error"
               /\ UNCHANGED <<ls_has_more, ls_cursor, all_entries, ls_results>>
          ELSE /\ ls_pc' = "listing"
               /\ ls_results' = Append(ls_results, result)
               /\ all_entries' = Append(all_entries, result.entries)
               /\ ls_has_more' = result.has_more
               /\ ls_cursor' = result.cursor
       /\ UNCHANGED <<ls_input, fd_vars, fs_ret>>

\* A turn without ls_cursor: files_list_folder(path, recursive).
ListFolder ==
    /\ ls_pc = "listing"
    /\ LoopOn(ls_has_more, all_entries)
    /\ ~CursorSet(ls_cursor)
    /\ OnlyList
    /\ \E raises \in BOOLEAN : ListTurn("list", 0, raises)

\* A turn with a ls_cursor: files_list_folder_continue(ls_cursor).
ListFolderContinue ==
    /\ ls_pc = "listing"
    /\ LoopOn(ls_has_more, all_entries)
    /\ CursorSet(ls_cursor)
    /\ OnlyList
    /\ \E raises \in BOOLEAN : ListTurn("continue", ls_cursor[1], raises)

\* The loop is over: "return pd.concat(all_entries, ignore_index=True)".
ListReturn ==
    /\ ls_pc = "listing"
    /\ ~LoopOn(ls_has_more, all_entries)
    /\ OnlyList
    /\ ls_pc' = IF ls_caller \in {"get_folder_size", "download"}
                THEN "listed" ELSE "done"
    /\ UNCHANGED <<ls_input, ls_loop, fd_vars, fs_ret>>

\* get_folder_size: "return folder_contents["size"].sum()".
FolderSize ==
    /\ ls_pc = "listed"
    /\ ls_caller = "get_folder_size"
    /\ OnlyList
    /\ ls_pc' = "done"
    /\ fs_ret' = Some(SizeSum(Concat(all_entries)))
    /\ UNCHANGED <<ls_input, ls_loop, fd_vars>>

\* The entries of the listing that download has not yet gone through.
FolderRest == SubSeq(Concat(all_entries), fd_seen + 1,
                     Len(Concat(all_entries)))

\* One turn of "for _, entry in folder_contents.iterrows()": an entry of
\* type "file" is downloaded to local_path / rel_path and gets a result
\* record, unless _download_file raises; any other entry is passed over.
DownloadEntry ==
    /\ ls_pc = "listed"
    /\ ls_caller = "download"
    /\ FolderRest # <<>>
    /\ OnlyList
    /\ LET entry == Head(FolderRest)
       IN /\ fd_seen' = fd_seen + 1
          /\ IF entry.type = "file"
             THEN \E raises \in BOOLEAN :
                    IF raises
                    THEN /\ ls_pc' = "error"
                         /\ UNCHANGED <<fd_written, fd_results>>
                    ELSE /\ ls_pc' = "listed"
                         /\ fd_written' = fd_written \cup {entry.path}
                         /\ fd_results' = Append(fd_results, entry.path)
             ELSE UNCHANGED <<ls_pc, fd_written, fd_results>>
    /\ UNCHANGED <<ls_input, ls_loop, fs_ret>>

\* "return pd.DataFrame(results)"
DownloadFolderReturn ==
    /\ ls_pc = "listed"
    /\ ls_caller = "download"
    /\ FolderRest = <<>>
    /\ OnlyList
    /\ ls_pc' = "done"
    /\ UNCHANGED <<ls_input, ls_loop, fd_vars, fs_ret>>

NextList ==
    \/ ListCall
    \/ ListFolder
    \/ ListFolderContinue
    \/ ListReturn
    \/ FolderSize
    \/ DownloadEntry
    \/ DownloadFolderReturn

(***************************************************************************)
(* The specifications: one per component, the others at rest.              *)
(***************************************************************************)
IdleCodec ==
    /\ cx = <<>>
    /\ cstage = "idle"
    /\ cenc = <<>>
    /\ cdec = <<>>

IdleStore == InitStore /\ platform = "Linux" /\ force_fernet = "None"

IdleAuth == AuthAt("idle") /\ ~force_reauth /\ ~a_stored

IdleConc == ConcAt("idle") /\ cg_init = <<>>

IdleUpload == UploadAt("idle", {0}) /\ ~overwrite

IdleDownload == DownloadAt("idle", {0}) /\ dl_local = None

IdleBatch ==
    BatchAt("idle", {0}) /\ ~b_pooled /\ max_workers = 4 /\ ~b_overwrite

IdleList ==
    /\ ListAt("idle")
    /\ ls_caller = "list_files"
    /\ ls_tree = RemoteFiles
    /\ ls_page_size = 1
    /\ ~ls_flag

InitSpecCodec ==
    /\ InitCodec /\ IdleStore /\ IdleUpload /\ IdleDownload /\ IdleBatch
    /\ IdleAuth /\ IdleConc /\ IdleList
InitSpecStore ==
    /\ InitStore /\ IdleCodec /\ IdleUpload /\ IdleDownload /\ IdleBatch
    /\ IdleAuth /\ IdleConc /\ IdleList
InitSpecDisk ==
    /\ InitDisk /\ IdleCodec /\ IdleUpload /\ IdleDownload /\ IdleBatch
    /\ IdleAuth /\ IdleConc /\ IdleList
InitSpecUpload ==
    /\ InitUpload /\ IdleCodec /\ IdleStore /\ IdleDownload /\ IdleBatch
    /\ IdleAuth /\ IdleConc /\ IdleList
InitSpecDownload ==
    /\ InitDownload /\ IdleCodec /\ IdleStore /\ IdleUpload /\ IdleBatch
    /\ IdleAuth /\ IdleConc /\ IdleList
InitSpecBatch ==
    /\ InitBatch /\ IdleCodec /\ IdleStore /\ IdleUpload /\ IdleDownload
    /\ IdleAuth /\ IdleConc /\ IdleList

SpecCodec == InitSpecCodec /\ [][NextCodec]_vars
SpecStore == InitSpecStore /\ [][NextStore]_vars
\* One transfer of a file: an upload or a download.
InitSpecTransfer ==
    /\ \/ InitUpload /\ IdleDownload
       \/ IdleUpload /\ InitDownload
    /\ IdleCodec /\ IdleStore /\ IdleBatch /\ IdleAuth /\ IdleConc /\ IdleList

NextTransfer ==
    \/ UploadSizing
    \/ UploadSmallFile
    \/ UploadSessionStart
    \/ UploadSessionAppend
    \/ UploadSessionFinish
    \/ DownloadMetadata
    \/ DownloadSmallFile
    \/ DownloadLargeMetadata
    \/ DownloadSessionStart
    \/ DownloadSessionAppend

SpecTransfer == InitSpecTransfer /\ [][NextTransfer]_vars

\* One transfer of a file with a remote that serves a large object in
\* consecutive windows.
InitSpecServed == InitSpecTransfer

NextServed ==
    \/ UploadSizing
    \/ UploadSmallFile
    \/ UploadSessionStart
    \/ UploadSessionAppend
    \/ UploadSessionFinish
    \/ DownloadMetadata
    \/ DownloadSmallFile
    \/ DownloadLargeMetadata
    \/ ServedSessionStart
    \/ ServedSessionAppend

SpecServed == InitSpecServed /\ [][NextServed]_vars

\* One call of upload: of a file or of a directory.
InitSpecUploads ==
    /\ \/ InitUpload /\ IdleBatch
       \/ IdleUpload /\ InitBatch
    /\ IdleCodec /\ IdleStore /\ IdleDownload /\ IdleAuth /\ IdleConc /\ IdleList

NextUploads ==
    \/ UploadSizing
    \/ UploadSmallFile
    \/ UploadSessionStart
    \/ UploadSessionAppend
    \/ UploadSessionFinish
    \/ BatchUploadNext
    \/ BatchUploadReturn
    \/ BatchSubmit
    \/ WorkerStart
    \/ WorkerFinish
    \/ BatchCollect
    \/ BatchPoolReturn

SpecUploads == InitSpecUploads /\ [][NextUploads]_vars

InitSpecAuth ==
    /\ InitAuth /\ IdleCodec /\ IdleStore /\ IdleUpload /\ IdleDownload
    /\ IdleBatch /\ IdleConc /\ IdleList

InitSpecConc ==
    /\ InitConc /\ IdleCodec /\ IdleUpload /\ IdleDownload /\ IdleBatch
    /\ IdleAuth /\ IdleList

InitSpecList ==
    /\ InitList /\ IdleCodec /\ IdleStore /\ IdleUpload /\ IdleDownload
    /\ IdleBatch /\ IdleAuth /\ IdleConc

SpecList == InitSpecList /\ [][NextList]_vars /\ WF_vars(NextList)

SpecConc == InitSpecConc /\ [][NextConc]_vars

SpecAuth == InitSpecAuth /\ [][NextAuth]_vars
SpecDisk == InitSpecDisk /\ [][NextStore]_vars
SpecUpload == InitSpecUpload /\ [][NextUpload]_vars

\* One upload of a file that may not hold the bytes stat reported.
InitSpecMismatch ==
    /\ InitMismatch /\ IdleCodec /\ IdleStore /\ IdleDownload /\ IdleBatch
    /\ IdleAuth /\ IdleConc /\ IdleList

SpecMismatch == InitSpecMismatch /\ [][NextUpload]_vars
SpecDownload == InitSpecDownload /\ [][NextDownload]_vars
SpecBatch == InitSpecBatch /\ [][NextBatch]_vars

(***************************************************************************)
(* Claims about the token storage, checked under SpecStore.                *)
(***************************************************************************)
IsCredentialSet(C) == DOMAIN C = Fields /\ \A f \in Fields : C[f] # <<>>

\* What the ciphertext file decrypts to under the persisted key, if anything.
FileHolds(C) ==
    /\ token_file # None
    /\ key_file # None
    /\ token_file[1].key = key_file[1]
    /\ JsonValid(token_file[1].text)
    /\ JsonLoads(token_file[1].text) = C

\* C1: a save(C) of a four-field set that reported success, followed by a
\* get() that met no read error, has the get return a set equal to C,
\* whatever keyring writes failed in the save.
C1_SaveThenGetReturnsSaved ==
    [][(/\ hist.op = "save" /\ hist.ok /\ IsCredentialSet(hist.tokens[1])
        /\ hist'.op = "get" /\ ~hist'.fault)
       => hist'.got = hist.tokens]_vars

\* The required fields present in the selected backend's storage.
PresentFields ==
    IF use_keyring THEN {f \in Fields : keyring[f] # None}
    ELSE IF token_file = None \/ ~JsonValid(token_file[1].text) THEN {}
    ELSE Fields \cap DOMAIN JsonLoads(token_file[1].text)

\* C2: with only 1, 2 or 3 of the four required fields in the selected
\* backend's storage get() returns absent, and no set get() returns lacks
\* one of the four fields.
C2_PartialIsAbsent ==
    hist.op = "get" =>
        /\ (Cardinality(PresentFields) \in 1..3 => hist.got = None)
        /\ (hist.got # None => Fields \subseteq DOMAIN hist.got[1])

C2_Witness ==
    /\ hist.op = "get" /\ ~hist.fault
    /\ Cardinality(PresentFields) = 3
    /\ hist.got = None

C9_FallbackLeavesNoSplitBrain ==
    (/\ hist.op = "save" /\ use_keyring /\ hist.write_failed
     /\ IsCredentialSet(hist.tokens[1])) =>
        /\ hist.fsaves = 1
        /\ hist.ok =>
            /\ FileHolds(hist.tokens[1])
            /\ \A f \in DOMAIN hist.tokens[1] :
                   keyring[f] # Some(_encode_value(hist.tokens[1][f]))

\* C10: with an explicit force_fernet the store uses the Fernet file for
\* True and the keyring for False on every platform, and _test_keyring was
\* not run: no probe key was written.
C10_OverrideHonoured ==
    (st_pc = "ready" /\ force_fernet # "None") =>
        /\ use_keyring = (force_fernet = "False")
        /\ probe_writes = 0
        /\ keyring["test"] = None

C10_Witness ==
    /\ st_pc = "ready" /\ force_fernet = "False" /\ platform = "Windows"
    /\ use_keyring /\ hist.op = "save"

\* C11: without force_fernet the store uses the keyring exactly when the
\* platform is not Windows and _test_keyring returned True, and on Windows
\* it uses the Fernet file with _test_keyring not run.
C11_DefaultSelection ==
    (st_pc = "ready" /\ force_fernet = "None") =>
        /\ use_keyring = (platform # "Windows" /\ probe_out = "ok")
        /\ platform = "Windows" =>
               /\ ~use_keyring
               /\ probe_out = "none"
               /\ probe_writes = 0
               /\ keyring["test"] = None
        /\ platform # "Windows" => probe_out # "none" /\ probe_writes = 1

C11_Witness ==
    /\ st_pc = "ready" /\ force_fernet = "None" /\ platform = "Linux"
    /\ probe_out = "mismatch" /\ ~use_keyring /\ hist.op = "get"

\* The ciphertext file is missing, does not decrypt under the key of the
\* key file, carries a text that is not JSON or lacks a required field.
FileUnreadable ==
    \/ token_file = None
    \/ key_file = None
    \/ token_file[1].key # key_file[1]
    \/ ~JsonValid(token_file[1].text)
    \/ ~(Fields \subseteq DOMAIN JsonLoads(token_file[1].text))

\* C12: on the Fernet backend a get returns None and raises nothing when
\* the ciphertext file is missing, is corrupted, was made with another key,
\* holds a text that is not JSON or lacks a required field, or when reading
\* raised.
C12_UnreadableFileIsAbsent ==
    (hist.op = "get" /\ ~use_keyring) =>
        /\ ~hist.raised
        /\ (FileUnreadable \/ hist.fault) => hist.got = None

C12_Witness ==
    /\ hist.op = "get" /\ ~use_keyring /\ ~hist.fault
    /\ token_file # None /\ key_file # None
    /\ token_file[1].key = key_file[1]
    /\ ~JsonValid(token_file[1].text)
    /\ hist.got = None

\* C17: a save or a get on the Fernet backend in which creating or reading
\* the key file raised ends with that exception, not with a return value.
C17_KeyErrorPropagates ==
    (hist.op \in {"save", "get"} /\ ~use_keyring /\ hist.key_fault) =>
        hist.raised

(***************************************************************************)
(* Claims about the transfers, checked under SpecUpload, SpecDownload and  *)
(* SpecBatch, and about the codec, under SpecCodec.                        *)
(***************************************************************************)
CeilDiv(a, b) == (a + b - 1) \div b

\* C4: an upload that completed made exactly one files_upload call and no
\* session-start call if the file has at most 150 MiB (150 MiB included),
\* and no files_upload call and exactly one session-start call otherwise.
C4_PathBySize ==
    up_pc = "done" =>
        IF file_size <= LARGE_FILE_THRESHOLD
        THEN n_upload = 1 /\ n_session_start = 0
        ELSE n_upload = 0 /\ n_session_start = 1

C4_Witness ==
    /\ up_pc = "done" /\ file_size = LARGE_FILE_THRESHOLD
    /\ n_upload = 1 /\ n_session_start = 0

\* C5: a large upload that met no remote failure made one session-start
\* call carrying CHUNK_SIZE bytes, ceil((S - c)/c) - 1 append calls and one
\* finish call.
C5_LargePathCalls ==
    (up_pc = "done" /\ file_size > LARGE_FILE_THRESHOLD) =>
        /\ n_session_start = 1
        /\ start_len = CHUNK_SIZE
        /\ n_session_append = CeilDiv(file_size - CHUNK_SIZE, CHUNK_SIZE) - 1
        /\ n_session_finish = 1

C5_Witness ==
    /\ up_pc = "done" /\ file_size = 152 * MiB
    /\ n_session_append = 36 /\ n_session_finish = 1

\* The responses of the example: 4 MiB, 4 MiB, 2 MiB.
ExampleResponses == <<CHUNK_SIZE, CHUNK_SIZE, CHUNK_SIZE \div 2>>

\* The download loop stops at the first response shorter than CHUNK_SIZE,
\* and not before.
StopsAtFirstShortRead ==
    /\ \A i \in 1..(Len(dl_resps) - 1) : dl_resps[i] >= CHUNK_SIZE
    /\ (dl_pc = "session_loop" /\ dl_resps # <<>>)
           => dl_resps[Len(dl_resps)] >= CHUNK_SIZE
    /\ (dl_pc = "done" /\ n_dl_session_start = 1)
           => dl_resps # <<>> /\ dl_resps[Len(dl_resps)] < CHUNK_SIZE

\* C6 as stated: the loop stops at the first short response, and for the
\* responses 4 MiB, 4 MiB, 2 MiB the download makes 3 append calls and
\* leaves 10 MiB in the destination.
C6_ThreeAppendCalls ==
    /\ StopsAtFirstShortRead
    /\ (dl_pc = "done" /\ dl_resps = ExampleResponses) =>
           n_dl_session_append = 3 /\ dl_written = 10 * MiB

\* C6 amended: the loop stops at the first short response, and for the
\* responses 4 MiB, 4 MiB, 2 MiB the download makes 3 session calls, one
\* start and 2 appends, and leaves 10 MiB in the destination.
C6_ThreeSessionCalls ==
    /\ StopsAtFirstShortRead
    /\ (dl_pc = "done" /\ dl_resps = ExampleResponses) =>
           /\ n_dl_session_start = 1
           /\ n_dl_session_append = 2
           /\ dl_written = 10 * MiB

C6_Witness == dl_pc = "done" /\ dl_resps = ExampleResponses

\* C7: decode(encode(x)) = x for every string x.
C7_RoundTrip == cstage = "decoded" => cdec = cx

C7_Witness ==
    /\ cstage = "decoded" /\ cx = <<233, 10, 8364>>
    /\ cenc # cx /\ cdec = cx

C13_FailureEndsTransfer ==
    /\ up_failures <= 1 /\ dl_failures <= 1
    /\ (up_failures = 1) = (up_pc = "error")
    /\ (dl_failures = 1) = (dl_pc = "error")

C13_Witness ==
    /\ up_pc = "error" /\ up_failures = 1
    /\ n_session_start = 1 /\ n_session_append = 2 /\ n_session_finish = 0

\* C14: the call that commits an uploaded object, files_upload or
\* files_upload_session_finish, carries the SHA-256 digest of the whole
\* local file.
C14_CommitCarriesContentHash ==
    commit # None => commit[1].content_hash = Some(Sha256(file_size))

\* C15: the committing call of an upload carries the mode "overwrite" when
\* overwrite is true and "add" otherwise, on the small and the large path,
\* and in a directory upload _upload_file is given that mode for every
\* file.
C15_CommitCarriesMode ==
    /\ commit # None =>
           commit[1].mode = (IF overwrite THEN "overwrite" ELSE "add")
    /\ \A i \in 1..b_nfiles :
           b_modes[i] # "none" =>
               b_modes[i] = (IF b_overwrite THEN "overwrite" ELSE "add")
    /\ b_pc \in {"returned", "returned_none"} =>
           \A i \in 1..b_nfiles : b_modes[i] # "none"

C15_Witness ==
    /\ up_pc = "done" /\ overwrite /\ file_size > LARGE_FILE_THRESHOLD
    /\ commit # None /\ commit[1].mode = "overwrite"

\* C16: when a directory upload has ended, every file of the directory
\* was uploaded or has failed itself, and every uploaded file has its
\* record in the result.
C16_SiblingsStillTransferred ==
    b_pc \in {"raised", "returned", "returned_none"} =>
        \A i \in 1..b_nfiles :
            /\ b_task[i] \in {"ok", "failed"}
            /\ b_task[i] = "ok" =>
                   \E k \in 1..Len(b_results) : b_results[k] = i

SingleGet ==
    IF use_keyring THEN KeyringGet(cg_init.keyring)
    ELSE FernetGet("ok", cg_init.key, cg_init.tokens)

\* C19: every get_tokens call of the concurrent calls returns what a
\* single call would return, and the keyring entries and the ciphertext
\* file stay as they were.
C19_ConcurrentGetsAgree ==
    /\ \A t \in Getters :
           cg_ret[t] # NotReturned => cg_ret[t] = Returned(SingleGet)
    /\ cg_pc[1] # "idle" =>
           /\ keyring = cg_init.keyring
           /\ token_file = cg_init.tokens

C19_Witness ==
    /\ \A t \in Getters : cg_pc[t] = "done"
    /\ ~use_keyring
    /\ cg_init.key = None /\ cg_init.tokens # None
    /\ cg_key[1] = Some(FreshKey(1)) /\ cg_key[2] = Some(FreshKey(2))
    /\ cg_ret[1] = Returned(None)

(***************************************************************************)
(* Claims about authenticate_dropbox, checked under SpecAuth.              *)
(***************************************************************************)
\* C20: after an authorization code was exchanged, save_tokens is called
\* at most 2 times and not again after a save that succeeded, and the call
\* returns True exactly if one of the saves succeeded, False after 2 that
\* failed.
C20_SaveAtMostTwice ==
    /\ Len(a_save_results) <= 2
    /\ \A i \in 1..(Len(a_save_results) - 1) : ~a_save_results[i]
    /\ a_save_results # <<>> => a_exchanged
    /\ (a_pc = "returned" /\ a_exchanged) =>
           /\ a_save_results # <<>>
           /\ a_ret = Some(\E i \in 1..Len(a_save_results) : a_save_results[i])
           /\ a_ret = Some(FALSE) => Len(a_save_results) = 2

C20_Witness ==
    /\ a_pc = "returned" /\ a_exchanged
    /\ a_save_results = <<FALSE, TRUE>> /\ a_ret = Some(TRUE)

RECURSIVE LastFailure(_, _)
LastFailure(h, i) ==
    IF i = 0 THEN 0
    ELSE IF h[i].ran /\ ~h[i].ret THEN h[i].at
    ELSE LastFailure(h, i - 1)

\* The counter of failed calls after the first i calls of h, and whether
\* call i is to be refused: MaxAttempts failures counted and less than
\* Cooldown seconds since the last of them.
RECURSIVE FailureCount(_, _)
Refusable(h, i) ==
    /\ FailureCount(h, i - 1) >= MaxAttempts
    /\ h[i].at - LastFailure(h, i - 1) < Cooldown

FailureCount(h, i) ==
    IF i = 0 THEN 0
    ELSE LET c == FailureCount(h, i - 1)
             c0 == IF c >= MaxAttempts THEN 0 ELSE c
         IN IF Refusable(h, i) THEN c
            ELSE IF h[i].ret THEN c0 ELSE c0 + 1

\* C25: a call made after MaxAttempts calls that returned a failure and
\* less than Cooldown seconds after the last of them is refused (it
\* returns False and the authentication does not run); every other call
\* is let through.
C25_RefusedWithinCooldown ==
    \A i \in 1..Len(a_hist) :
        IF Refusable(a_hist, i)
        THEN ~a_hist[i].ran /\ ~a_hist[i].ret
        ELSE a_hist[i].ran

RECURSIVE SentBy(_, _)
SentBy(calls, i) ==
    IF i = 0 THEN 0 ELSE SentBy(calls, i - 1) + calls[i].len

\* The bytes carried by those of the first i calls that returned.
RECURSIVE AckedBy(_, _)
AckedBy(calls, i) ==
    IF i = 0 THEN 0
    ELSE AckedBy(calls, i - 1) + (IF calls[i].acked THEN calls[i].len ELSE 0)

\* C23 as stated: on the large path cursor_offset does not exceed the file
\* size, and the upload is done exactly when cursor_offset equals the file
\* size.
C23_TerminalAtTotalSize ==
    ~IsSmall(file_size) =>
        /\ cursor_offset <= file_size
        /\ up_pc = "done" <=> cursor_offset = file_size

\* C23: on the large path the cursor offset never decreases (the offsets
\* carried by the calls are in ascending order, none above the present
\* one), it is the number of bytes acknowledged for start and appends and
\* stays below the file size, the finish call leaving it as it is; the
\* upload is done exactly when the bytes acknowledged, those of finish
\* included, are the file size.
C23_CursorBelowTotalSize ==
    ~IsSmall(file_size) =>
        /\ cursor_offset < file_size
        /\ \A i \in 2..Len(up_calls) :
            /\ up_calls[i].offset[1] <= cursor_offset
            /\ \A j \in 2..i : up_calls[j].offset[1] <= up_calls[i].offset[1]
        /\ \E n \in 0..Len(up_calls) :
            /\ \A i \in 1..Len(up_calls) : i <= n <=> up_calls[i].call # "finish"
            /\ cursor_offset = AckedBy(up_calls, n)
        /\ AckedBy(up_calls, Len(up_calls)) <= file_size
        /\ up_pc = "done" <=> AckedBy(up_calls, Len(up_calls)) = file_size

C23_Witness ==
    /\ up_pc = "done"
    /\ file_size = LARGE_FILE_THRESHOLD + CHUNK_SIZE
    /\ Len(up_calls) > 3
    /\ cursor_offset = file_size - CHUNK_SIZE \div 2

\* C24: on the large path the calls are start, then appends, then at most
\* one finish, which is the last call; a call is made only after the one
\* before it returned; every append and the finish carry as offset the
\* number of bytes sent by the calls before them, and their payload begins
\* at that position of the file; when the upload is done the payloads add
\* up to the file.
C24_SessionOrderAndOffsets ==
    LET n == Len(up_calls)
    IN  /\ n = n_session_start + n_session_append + n_session_finish
        /\ \A i \in 1..n :
            /\ up_calls[i].call = "start" <=> i = 1
            /\ up_calls[i].call = "finish" => i = n
            /\ i < n => up_calls[i].acked
            /\ up_calls[i].pos = SentBy(up_calls, i - 1)
            /\ i > 1 => up_calls[i].offset = Some(SentBy(up_calls, i - 1))
            /\ up_calls[i].len > 0
        /\ (up_pc = "done" /\ ~IsSmall(file_size)) =>
            /\ up_calls[n].call = "finish"
            /\ up_calls[n].acked
            /\ SentBy(up_calls, n) = file_size

C24_Witness ==
    /\ up_pc = "done"
    /\ file_size = LARGE_FILE_THRESHOLD + 1
    /\ Len(up_calls) = 38
    /\ up_calls[38] = [call |-> "finish", offset |-> Some(37 * CHUNK_SIZE),
                       pos |-> 37 * CHUNK_SIZE, len |-> 2 * MiB + 1,
                       acked |-> TRUE]

\* C27: after a clear that reported success no field is left in the
\* keyring and the ciphertext file holds none of the dicts that were saved.
C27_ClearErasesAllBackends ==
    (hist.op = "clear" /\ hist.ok) =>
        /\ \A f \in Fields : keyring[f] = None
        /\ ~\E C \in TokenInputs : FileHolds(C)

\* C28: a set returned by get_tokens has the four fields, none of them
\* empty.
C28_ReturnedSetHasNoEmptyField ==
    (hist.op = "get" /\ hist.got # None) => IsCredentialSet(hist.got[1])

\* C29: once the store is constructed no step changes the backend selected.
C29_SelectionNeverChanges ==
    [][st_pc = "ready" => use_keyring' = use_keyring]_vars

C29_Witness ==
    /\ use_keyring
    /\ hist.op = "save" /\ hist.ok /\ hist.write_failed /\ hist.fsaves = 1
    /\ token_file # None

\* C30: a key file that exists is not written again: no step changes its
\* content, whatever the call and its outcome.
C30_KeyFileWrittenOnce ==
    [][key_file # None => key_file' = key_file]_vars

C30_Witness ==
    /\ key_file = Some(ForeignKey)
    /\ hist.op = "save" /\ hist.ok
    /\ token_file # None /\ token_file[1].key = ForeignKey

C32_FolderDownloadComplete ==
    (ls_caller = "download" /\ ls_pc = "done") =>
        /\ fd_written = ls_tree
        /\ Len(fd_results) = Cardinality(ls_tree)

\* C33 as stated: get_folder_size returns the sum of the size column of
\* the recursive listing of the folder.
C33_FolderSizeIsRecursiveSum ==
    (ls_caller = "get_folder_size" /\ ls_pc = "done") =>
        fs_ret = Some(SizeSum(RemoteEntries(ls_tree, TRUE)))

\* The calls of list_files so far follow the pages served so far.
ListCallsFollowPages ==
    /\ Len(ls_calls) - Len(ls_results) \in
           (IF ls_pc = "error" THEN {0, 1} ELSE {0})
    /\ \A i \in 1..Len(ls_calls) :
        IF i = 1
        THEN ls_calls[i] = [call |-> "list", cursor |-> None]
        ELSE /\ ls_results[i - 1].has_more
             /\ ls_calls[i] = [call |-> "continue",
                               cursor |-> ls_results[i - 1].cursor]
    /\ all_entries = [i \in 1..Len(ls_results) |-> ls_results[i].entries]
    /\ ls_pc \in {"listed", "done"} =>
        /\ ls_results # <<>>
        /\ ~ls_results[Len(ls_results)].has_more

ThroughKeyring(tokens) ==
    [f \in DOMAIN tokens |-> _decode_value(_encode_value(tokens[f]))]

\* C35 as stated: on the keyring backend every set returned by get_tokens
\* is one of the sets passed to save_tokens, whole: its four fields come
\* from one save, whichever keyring writes failed.
C35_GetReturnsOneSave ==
    (hist.op = "get" /\ use_keyring /\ hist.got # None) =>
        \E tokens \in TokenInputs :
            /\ DOMAIN tokens = Fields
            /\ hist.got[1] = ThroughKeyring(tokens)

\* C39 as stated: when a download has failed, a destination file that was
\* there before it still has the content it had.
C39_FailedDownloadKeepsFile ==
    dl_pc = "error" => dl_local # Some("replaced")

\* C36 as stated: on the four transfer paths the bytes reported to the
\* progress bar never exceed the size of the object, and are the size of
\* the object when the transfer is done.
C36_ProgressReachesTotal ==
    /\ up_pbar <= file_size
    /\ dl_pbar <= meta_size
    /\ up_pc = "done" => up_pbar = file_size
    /\ dl_pc = "done" => dl_pbar = meta_size

\* C37: with a remote that serves the object in consecutive windows of
\* CHUNK_SIZE bytes, the last one shorter or empty, a large download comes
\* to an end after finitely many session calls (at most one per window,
\* and the loop is never stuck) with the whole object written, also when
\* its size is a multiple of CHUNK_SIZE; the cursor of each append call
\* carries the number of bytes written so far.
C37_ServedDownloadTerminates ==
    /\ (dl_pc = "session_loop" /\ dl_cursor # None) =>
           dl_cursor = Some(dl_written)
    /\ n_dl_session_start + n_dl_session_append <=
           meta_size \div CHUNK_SIZE + 1
    /\ dl_pc = "session_loop" =>
           ENABLED (ServedSessionStart \/ ServedSessionAppend)
    /\ (dl_pc = "done" /\ IsLargeDownload(meta_size)) =>
           dl_written = meta_size

C37_Witness ==
    /\ dl_pc = "done"
    /\ meta_size = LARGE_FILE_THRESHOLD + CHUNK_SIZE \div 2
    /\ meta_size % CHUNK_SIZE = 0
    /\ dl_resps[Len(dl_resps)] = 0
    /\ n_dl_session_append = meta_size \div CHUNK_SIZE
    /\ dl_written = meta_size

\* C38 as stated, in the form a finite run refutes: a large upload comes
\* to an end after finitely many remote calls because every turn of its
\* loop that does not end it moves the read position forward, whether or
\* not the file holds the bytes that stat reported.  The test of the loop
\* reads nothing but f.tell() and file_size, so that a turn which leaves
\* the position where it was is taken again without end.
C38_EveryTurnAdvances ==
    [][(up_pc = "session_loop" /\ up_pc' = "session_loop") =>
           f_tell' > f_tell]_vars

=============================================================================
